---- MODULE Spec2Model ----
(***************************************************************************)
(* Model of the per-session audio task of the voice-ordering gateway       *)
(* (rust-code/src/handlers/audio.rs, handle_audio_socket) together with    *)
(* the collaborators it calls (persistence.rs, qu.rs).                     *)
(*                                                                         *)
(* The task is one event loop (tokio::select!) over three sources: the     *)
(* message->audio cross-channel queue, the upstream agent (STS) socket and *)
(* the device (Nexeo) audio socket.  One branch body runs at a time, so    *)
(* every branch body is one action.                                        *)
(*                                                                         *)
(* Option<T> is modelled as a sequence: None == <<>>, Some(v) == <<v>>.    *)
(*                                                                         *)
(* The order backend, the query backend and the file system are external   *)
(* collaborators: their requests are modelled as completing (with an Ok or *)
(* an Err answer where the code distinguishes the two).  The panics of the *)
(* audio task itself (connect_async(..).expect, the handshake send         *)
(* unwrap, message.unwrap() on an upstream read error, the unwrap of the   *)
(* capture-frame send) are modelled: the task ends and its locals are      *)
(* dropped.                                                                *)
(*                                                                         *)
(* Spec and SpecFn describe one audio task, its events chosen freely.      *)
(* SpecAdm describes the admission of the device's connections             *)
(* (handle_audio, handle_message, the blacklist and the session registry   *)
(* of main.rs AppState); SpecReg and SpecRegFair describe the socket tasks *)
(* of all admitted connections and the channels between them.              *)
(***************************************************************************)
EXTENDS Integers, Sequences, FiniteSets, TLC

\* ------------------------------------------------------------------ bounds
MaxConn == 2          \* upstream connections opened in one run
MaxBuffer == 2        \* bytes held in buffered_audio
MaxAudioLen == 1      \* bytes of one upstream binary frame
MaxDeviceLen == 5     \* bytes of one device capture frame
MaxFuncs == 2         \* items of one FunctionCallRequest
MaxFnConn == 1        \* upstream connections opened in one run of SpecFn
MaxAdmitted == 3      \* connections admitted in one run
MaxPublished == 1     \* cross-channel events published in one run
MaxRuns == 5          \* handler runs of one recorded run of the audio task
MaxCaptureLen == 9    \* bytes of one frame given to the channel extraction
MaxTextEvents == 4    \* events published in one run of SpecText
MaxQueued == 13       \* events published in one run of SpecQueue

\* ------------------------------------------------------- program constants
ENABLE_BARGE_IN == FALSE
HeaderLen == 16
ReservedLen == 11
ChannelBuffer == 10

None == <<>>
Some(v) == <<v>>
IsSome(o) == o # <<>>
Unwrap(o) == o[1]

\* ------------------------------------------------------------------ CRC32
\* crc32fast::hash: the reflected IEEE CRC-32 (polynomial 0xEDB88320,
\* initial value and final xor 0xFFFFFFFF).  A 32-bit word is a function
\* 0..31 -> {0,1}, index i being the bit of weight 2^i.
Word == 0 .. 31

PolyBits == {5, 8, 9, 15, 19, 20, 21, 23, 24, 26, 27, 29, 30, 31}

Poly == [i \in Word |-> IF i \in PolyBits THEN 1 ELSE 0]

AllOnes == [i \in Word |-> 1]

Xor32(a, b) == [i \in Word |-> (a[i] + b[i]) % 2]

Shr1(a) == [i \in Word |-> IF i < 31 THEN a[i + 1] ELSE 0]

ByteWord(b) == [i \in Word |-> IF i < 8 THEN (b \div (2 ^ i)) % 2 ELSE 0]

CrcShift(crc) == IF crc[0] = 1 THEN Xor32(Shr1(crc), Poly) ELSE Shr1(crc)

RECURSIVE CrcShifts(_, _)
CrcShifts(crc, n) == IF n = 0 THEN crc ELSE CrcShifts(CrcShift(crc), n - 1)

RECURSIVE CrcUpdate(_, _)
CrcUpdate(crc, bytes) ==
    IF bytes = <<>> THEN crc
    ELSE CrcUpdate(CrcShifts(Xor32(crc, ByteWord(Head(bytes))), 8), Tail(bytes))

crc32_bitwise(payload) == Xor32(CrcUpdate(AllOnes, payload), AllOnes)

\* the checksums of the payloads the model frames, computed once
AudioBytes == {7, 200}

SeqsUpTo(S, n) == UNION {[1 .. k -> S] : k \in 0 .. n}

Crc32Table ==
    CHOOSE t \in {[p \in SeqsUpTo(AudioBytes,
                                  IF MaxBuffer > MaxAudioLen THEN MaxBuffer ELSE MaxAudioLen)
                      |-> crc32_bitwise(p)]} : t = t

crc32(payload) ==
    IF payload \in DOMAIN Crc32Table THEN Crc32Table[payload] ELSE crc32_bitwise(payload)

\* the byte of a word whose lowest bit has weight 2^lo
WordByte(w, lo) ==
    w[lo] + 2 * w[lo + 1] + 4 * w[lo + 2] + 8 * w[lo + 3]
    + 16 * w[lo + 4] + 32 * w[lo + 5] + 64 * w[lo + 6] + 128 * w[lo + 7]

\* the checksum bytes in little-endian order
to_le_bytes(w) == <<WordByte(w, 0), WordByte(w, 8), WordByte(w, 16), WordByte(w, 24)>>

to_be_bytes(w) == <<WordByte(w, 24), WordByte(w, 16), WordByte(w, 8), WordByte(w, 0)>>

Zeros(n) == [i \in 1 .. n |-> 0]

\* the framing without the byte pushed after the checksum
encode_short_header(payload) ==
    to_be_bytes(crc32(payload)) \o Zeros(ReservedLen) \o payload

\* the 16-byte header framing of device-bound audio
encode(payload) ==
    to_be_bytes(crc32(payload)) \o <<0>> \o Zeros(ReservedLen) \o payload

\* ------------------------------------------------------------------ state
VARIABLES
    taskState,        \* "running" | "panicked": the audio task's event loop
    dg_request_id,    \* Option: agent session id announced by Welcome
    qu_order_id,      \* Option: id of the backend order in progress
    sts_receiver,     \* Option: read half of the upstream connection
    sts_sender,       \* Option: write half of the upstream connection
    agent_speaking,   \* BOOLEAN
    buffered_audio,   \* sequence of bytes (pending_playback_audio)
    sts_ended,        \* the upstream stream has delivered its Close frame
    connOpened,       \* upstream connections opened so far (id of the latest)
    ordersCreated,    \* orders created at the backend so far (id of the latest)
    arrived,          \* an Arrive event has been processed
    toNexeo,          \* frames the last handler sent on the device audio socket
    toSts,            \* messages the last handler handed to an upstream sender
    toMessage,        \* events the last handler published to the message task
    persistCalls,     \* calls of persist_order made by the last handler
    written,          \* order files written by the last handler
    backendCalls,     \* order/query backend operations invoked by the last handler
    last,             \* the handler that ran last and its input
    tick              \* alternates on every handler run

\* the history of one run of the audio task, kept when recording is set
VARIABLES
    recording,        \* BOOLEAN, fixed at the start of the run
    runs,             \* the handler runs so far: input and the state it met
    sent              \* all messages handed to the upstream sender and to the device

\* state.settings (main.rs 38): the configuration sent to the agent
VARIABLES
    settings

\* the process-wide state (main.rs AppState) and the connections of the device
VARIABLES
    blacklist,                 \* state.blacklist: a set of session ids
    audio_to_message_handles,  \* session id -> Option of the channel registered
    message_to_audio_handles,  \* session id -> Option of the channel registered
    channels,                  \* channel id -> events sent and not yet received
    published,                 \* cross-channel events published so far
    audioConns,                \* the admitted /audio connections, in order
    messageConns               \* the admitted /message connections, in order

locals == <<dg_request_id, qu_order_id, sts_receiver, sts_sender,
            agent_speaking, buffered_audio>>

\* the audio task's variables other than the record of the last handler
taskVars == <<taskState, dg_request_id, qu_order_id, sts_receiver, sts_sender,
              agent_speaking, buffered_audio, sts_ended, connOpened, ordersCreated,
              arrived, toNexeo, toSts, toMessage, persistCalls, written,
              backendCalls>>

connVars == <<blacklist, audio_to_message_handles, message_to_audio_handles,
              channels, published, audioConns, messageConns>>

vars == <<taskState, dg_request_id, qu_order_id, sts_receiver, sts_sender,
          agent_speaking, buffered_audio, sts_ended, connOpened, ordersCreated,
          arrived, toNexeo, toSts, toMessage, persistCalls, written,
          backendCalls, last, tick, connVars, recording, runs, sent, settings>>

\* session ids: main.rs 391-392 starts with one blacklisted id
BlacklistedUid == "3E0245C352A345278CCE30FD262449CE"

Uids == {"store1", BlacklistedUid}

\* ----------------------------------------------------------------- inputs
\* upstream binary frames (agent speech)
AudioFrames == SeqsUpTo(AudioBytes, MaxAudioLen)

\* device capture frames: interleaved stereo samples, any length
DeviceFrames ==
    {[i \in 1 .. n |-> base + i] : n \in 0 .. MaxDeviceLen, base \in {10, 100}}

\* ---------------------------------------------------------------- helpers
\* state after construction (audio.rs lines 109-121)
Constructed ==
    /\ taskState = "running"
    /\ dg_request_id = None
    /\ qu_order_id = None
    /\ sts_receiver = None
    /\ sts_sender = None
    /\ agent_speaking = FALSE
    /\ buffered_audio = <<>>
    /\ sts_ended = FALSE
    /\ connOpened = 0
    /\ ordersCreated = 0
    /\ arrived = FALSE
    /\ toNexeo = <<>>
    /\ toSts = <<>>
    /\ toMessage = <<>>
    /\ persistCalls = <<>>
    /\ written = <<>>
    /\ backendCalls = <<>>
    /\ tick = 0
    /\ runs = <<>>
    /\ sent = [sts |-> <<>>, nexeo |-> <<>>]
    /\ settings = "default"

\* the process-wide state at start-up (main.rs 391-407): no connection yet
Started ==
    /\ blacklist = {BlacklistedUid}
    /\ audio_to_message_handles = [uid \in Uids |-> None]
    /\ message_to_audio_handles = [uid \in Uids |-> None]
    /\ channels = <<>>
    /\ published = 0
    /\ audioConns = <<>>
    /\ messageConns = <<>>

Init ==
    /\ Constructed
    /\ Started
    /\ last = [op |-> "init", arg |-> <<>>]
    /\ recording = FALSE

\* one handler run as the history keeps it
Run(op, arg) ==
    [op |-> op, arg |-> arg, sender |-> sts_sender, speaking |-> agent_speaking,
     ended |-> sts_ended]

\* bookkeeping of one handler run of the audio task taken alone
Ran(op, arg) ==
    /\ recording => Len(runs) < MaxRuns
    /\ last' = [op |-> op, arg |-> arg]
    /\ tick' = 1 - tick
    /\ runs' = IF recording THEN Append(runs, Run(op, arg)) ELSE runs
    /\ UNCHANGED <<connVars, recording, settings>>

Out(nexeo, sts, message, calls, files, backend) ==
    /\ toNexeo' = nexeo
    /\ toSts' = sts
    /\ toMessage' = message
    /\ persistCalls' = calls
    /\ written' = files
    /\ backendCalls' = backend
    /\ sent' = IF recording
               THEN [sts |-> sent.sts \o sts,
                     nexeo |-> sent.nexeo \o
                               [i \in 1 .. Len(nexeo) |->
                                   [run |-> Len(runs) + 1, frame |-> nexeo[i]]]]
               ELSE sent

\* a panic in a branch body ends the task; its locals are dropped, which
\* closes the upstream connection
Panic ==
    /\ taskState' = "panicked"
    /\ dg_request_id' = None
    /\ qu_order_id' = None
    /\ sts_receiver' = None
    /\ sts_sender' = None
    /\ agent_speaking' = FALSE
    /\ buffered_audio' = <<>>

\* a text or binary message handed to the write half of connection conn
StsMsg(sender, kind, body) == [conn |-> Unwrap(sender), kind |-> kind, body |-> body]

\* persist_order testing the agent session id only
persist_order_unchecked(order, session, reason) ==
    IF IsSome(session)
    THEN <<[order |-> IF IsSome(order) THEN Unwrap(order) ELSE 0,
            session |-> Unwrap(session), reason |-> reason]>>
    ELSE <<>>

\* persistence.rs persist_order: the file is written only when both ids are
\* present; the record is named by order id, agent session id and reason
persist_order(order, session, reason) ==
    IF IsSome(order) /\ IsSome(session)
    THEN <<[order |-> Unwrap(order), session |-> Unwrap(session), reason |-> reason]>>
    ELSE <<>>

\* persist_order fetches the order from the backend before writing it
persist_backend(order, session) ==
    IF IsSome(order) /\ IsSome(session)
    THEN <<[op |-> "order", order |-> order, arg |-> <<>>]>>
    ELSE <<>>

PersistCall(order, session, reason) ==
    [order |-> order, session |-> session, reason |-> reason]

\* an Arrive that sends no handshake
handshake_none(conn, value) == <<>>

\* the handshake built from the configuration of start-up
handshake_stale(conn, value) ==
    <<StsMsg(Some(conn), "Text", [type |-> "Settings", value |-> "default"])>>

\* the settings handshake (lines 152-163): the current configuration, sent
\* on the write half of the connection just opened
handshake(conn, value) ==
    <<StsMsg(Some(conn), "Text", [type |-> "Settings", value |-> value])>>

\* --------------------------------------- cross-channel events (xch_rx.next())
\* Arrive: connect to the agent, send the settings handshake, create an order.
\* connect_async(..).expect(..) and the unwrap of the handshake send panic.
\* limit bounds the connections opened in one run.
XchArrive(outcome, limit) ==
    /\ taskState = "running"
    /\ connOpened < limit
    /\ arrived' = TRUE
    /\ Ran("Arrive", outcome)
    /\ CASE outcome = "connect_failed" ->
              /\ Panic
              /\ Out(<<>>, <<>>, <<>>, <<>>, <<>>, <<>>)
              /\ sts_ended' = FALSE
              /\ UNCHANGED <<connOpened, ordersCreated>>
         [] outcome = "handshake_failed" ->
              /\ Panic
              /\ Out(<<>>, handshake(connOpened + 1, settings),
                     <<>>, <<>>, <<>>, <<>>)
              /\ sts_ended' = FALSE
              /\ connOpened' = connOpened + 1
              /\ UNCHANGED ordersCreated
         [] outcome = "ok" ->
              /\ connOpened' = connOpened + 1
              /\ ordersCreated' = ordersCreated + 1
              /\ qu_order_id' = Some(ordersCreated + 1)
              /\ sts_receiver' = Some(connOpened + 1)
              /\ sts_sender' = Some(connOpened + 1)
              /\ sts_ended' = FALSE
              /\ Out(<<>>, handshake(connOpened + 1, settings),
                     <<>>, <<>>, <<>>,
                     <<[op |-> "orders", order |-> None, arg |-> <<>>]>>)
              /\ UNCHANGED <<taskState, dg_request_id, agent_speaking, buffered_audio>>

\* SessionEnd leaving agent_speaking and the buffer as they are
SessionEnd_keeps_playback(reason) ==
    /\ Out(<<>>, <<>>, <<>>,
           <<PersistCall(qu_order_id, dg_request_id, reason)>>,
           persist_order(qu_order_id, dg_request_id, reason),
           persist_backend(qu_order_id, dg_request_id))
    /\ qu_order_id' = None
    /\ sts_receiver' = None
    /\ sts_sender' = None
    /\ sts_ended' = FALSE
    /\ UNCHANGED <<taskState, dg_request_id, connOpened, ordersCreated, arrived,
                   buffered_audio, agent_speaking>>

\* SessionEnd leaving the order id in place
SessionEnd_keeps_order(reason) ==
    /\ Out(<<>>, <<>>, <<>>,
           <<PersistCall(qu_order_id, dg_request_id, reason)>>,
           persist_order(qu_order_id, dg_request_id, reason),
           persist_backend(qu_order_id, dg_request_id))
    /\ sts_receiver' = None
    /\ sts_sender' = None
    /\ buffered_audio' = <<>>
    /\ agent_speaking' = FALSE
    /\ sts_ended' = FALSE
    /\ UNCHANGED <<taskState, dg_request_id, connOpened, ordersCreated, arrived,
                   qu_order_id>>

\* Depart and Escalation: persist, then drop the order and the connection
\* and reset the playback state (lines 174-184 and 209-219)
SessionEnd(reason) ==
    /\ Out(<<>>, <<>>, <<>>,
           <<PersistCall(qu_order_id, dg_request_id, reason)>>,
           persist_order(qu_order_id, dg_request_id, reason),
           persist_backend(qu_order_id, dg_request_id))
    /\ qu_order_id' = None
    /\ sts_receiver' = None
    /\ sts_sender' = None
    /\ buffered_audio' = <<>>
    /\ agent_speaking' = FALSE
    /\ sts_ended' = FALSE
    /\ UNCHANGED <<taskState, dg_request_id, connOpened, ordersCreated, arrived>>

XchDepart ==
    /\ taskState = "running"
    /\ Ran("Depart", <<>>)
    /\ SessionEnd("depart")

\* Escalation persisting under the reason of Depart
XchEscalation_as_depart ==
    /\ taskState = "running"
    /\ Ran("Escalation", <<>>)
    /\ SessionEnd("depart")

XchEscalation ==
    /\ taskState = "running"
    /\ Ran("Escalation", <<>>)
    /\ SessionEnd("escalation")

\* played without setting agent_speaking again after the flush
played_no_reflip(buffer) ==
    IF buffer # <<>>
    THEN [agent_speaking |-> FALSE, buffered_audio |-> <<>>, toNexeo |-> <<encode(buffer)>>]
    ELSE [agent_speaking |-> FALSE, buffered_audio |-> buffer, toNexeo |-> <<>>]

\* Played (lines 185-208): agent_speaking is cleared, then a non-empty buffer
\* is framed, sent to the device and agent_speaking is set again
played(buffer) ==
    IF buffer # <<>>
    THEN [agent_speaking |-> TRUE, buffered_audio |-> <<>>, toNexeo |-> <<encode(buffer)>>]
    ELSE [agent_speaking |-> FALSE, buffered_audio |-> buffer, toNexeo |-> <<>>]

XchPlayed ==
    /\ taskState = "running"
    /\ Ran("Played", <<>>)
    /\ LET r == played(buffered_audio) IN
         /\ agent_speaking' = r.agent_speaking
         /\ buffered_audio' = r.buffered_audio
         /\ Out(r.toNexeo, <<>>, <<>>, <<>>, <<>>, <<>>)
    /\ UNCHANGED <<taskState, dg_request_id, qu_order_id, sts_receiver, sts_sender,
                   sts_ended, connOpened, ordersCreated, arrived>>

\* any other cross-channel event (UserStartedSpeaking): the `_` arm, a warning
XchUnhandled ==
    /\ taskState = "running"
    /\ Ran("UserStartedSpeaking", <<>>)
    /\ Out(<<>>, <<>>, <<>>, <<>>, <<>>, <<>>)
    /\ UNCHANGED <<taskState, dg_request_id, qu_order_id, sts_receiver, sts_sender,
                   agent_speaking, buffered_audio, sts_ended, connOpened,
                   ordersCreated, arrived>>

\* ------------------------------------------------- function-call requests
FunctionNames ==
    {"query_items", "query_modifiers", "add_item", "delete_item", "add_modifier", "order"}

\* the catalog loaded at start-up: item keys of the menu and of the modifier tree
MenuKeys == {"k1"}
ModifierKeys == {"m1"}

\* argument strings the agent may send
ArgStrings ==
    {"not json",
     "{\"itemPathKey\":\"k1\",\"itemId\":\"i1\",\"query\":\"q\",\"parent\":\"k1\"}",
     "{\"itemPathKey\":\"m1\",\"itemId\":\"i1\",\"query\":\"q\",\"parent\":\"k1\"}"}

\* serde_json::from_str on those strings: Err, or the JSON object
from_str(text) ==
    CASE text = "{\"itemPathKey\":\"k1\",\"itemId\":\"i1\",\"query\":\"q\",\"parent\":\"k1\"}" ->
           [ok |-> TRUE,
            value |-> [itemPathKey |-> "k1", itemId |-> "i1", query |-> "q", parent |-> "k1"]]
      [] text = "{\"itemPathKey\":\"m1\",\"itemId\":\"i1\",\"query\":\"q\",\"parent\":\"k1\"}" ->
           [ok |-> TRUE,
            value |-> [itemPathKey |-> "m1", itemId |-> "i1", query |-> "q", parent |-> "k1"]]
      [] OTHER -> [ok |-> FALSE, value |-> <<>>]

\* input[key].as_str().unwrap_or_default()
as_str(value, key) == IF key \in DOMAIN value THEN value[key] ELSE ""

\* input.get("limit").and_then(|v| v.as_u64())
get_limit(value) == IF "limit" \in DOMAIN value THEN Some(value["limit"]) ELSE None

\* find_item resolving every key
find_item_any(item_path_key) == Some(item_path_key)

\* qu.rs find_item / find_modifier by item path key
find_item(item_path_key) ==
    IF item_path_key \in MenuKeys THEN Some(item_path_key) ELSE None

find_modifier(item_path_key) ==
    IF item_path_key \in ModifierKeys THEN Some(item_path_key) ELSE None

\* the first item of a request, and the items that may follow it
HeadItems ==
    [name : FunctionNames \cup {"bogus"}, arguments : ArgStrings, client_side : {TRUE}]
    \cup {[name |-> "order", arguments |-> "not json", client_side |-> FALSE],
          [name |-> "order",
           arguments |-> "{\"itemPathKey\":\"k1\",\"itemId\":\"i1\",\"query\":\"q\",\"parent\":\"k1\"}",
           client_side |-> FALSE]}

TailItems ==
    {[name |-> "order", arguments |-> "not json", client_side |-> TRUE]}
    \cup [name : {"order", "bogus"},
          arguments : {"{\"itemPathKey\":\"k1\",\"itemId\":\"i1\",\"query\":\"q\",\"parent\":\"k1\"}"},
          client_side : {TRUE}]

\* item i of a request carries the call id i
WithIds(items) ==
    [i \in 1 .. Len(items) |->
        [id |-> i, name |-> items[i].name, arguments |-> items[i].arguments,
         client_side |-> items[i].client_side]]

RECURSIVE ItemLists(_)
ItemLists(n) ==
    IF n = 1 THEN {<<h>> : h \in HeadItems}
    ELSE {Append(r, t) : r \in ItemLists(n - 1), t \in TailItems}

\* FunctionCallRequest messages of one item, and of up to MaxFuncs items
SingleRequests == {WithIds(r) : r \in ItemLists(1)}

Requests == UNION {{WithIds(r) : r \in ItemLists(n)} : n \in 1 .. MaxFuncs}

\* if let Some(ref mut sender) = sts_sender { let _ = sender.send(Text(..)) }
send_text(sender, body) ==
    IF IsSome(sender) THEN <<StsMsg(sender, "Text", body)>> ELSE <<>>

FunctionCallResponse(f, content) ==
    [type |-> "FunctionCallResponse", id |-> f.id, name |-> f.name, content |-> content]

BackendCall(op, order, arg) == [op |-> op, order |-> order, arg |-> arg]

NoEffect == [sent |-> <<>>, calls |-> <<>>]

\* a parse error that only skips the item
invalid_arguments_silent(f, sender) == NoEffect

\* a parse error of the arguments (lines 274-286): one error response
invalid_arguments(f, sender) ==
    [sent |-> send_text(sender,
                 FunctionCallResponse(f, <<"error", "invalid arguments JSON">>)),
     calls |-> <<>>]

\* an unknown name answered with an error
unknown_function_error(f, sender) ==
    [sent |-> send_text(sender, FunctionCallResponse(f, <<"error", "unknown function">>)),
     calls |-> <<>>]

\* a name that matches none of the `if function_name == ..` tests: nothing
unknown_function(f, sender) == NoEffect

\* the six `if function_name == ..` blocks (lines 289-490); answer is what
\* the order backend replies to add_item / add_modifier
known_function(f, input, order, sender, answer) ==
    LET key == as_str(input, "itemPathKey") IN
    CASE f.name = "query_items" ->
           [sent |-> send_text(sender,
                FunctionCallResponse(f, <<"items", "menu", as_str(input, "query")>>)),
            calls |-> <<BackendCall("query_menu", None,
                                    <<as_str(input, "query"), get_limit(input)>>)>>]
      [] f.name = "query_modifiers" ->
           [sent |-> send_text(sender,
                FunctionCallResponse(f, <<"items", "modifiers", as_str(input, "query")>>)),
            calls |-> <<BackendCall("query_modifiers", None,
                                    <<as_str(input, "query"), get_limit(input),
                                      Some(as_str(input, "parent"))>>)>>]
      [] f.name = "add_item" ->
           IF IsSome(find_item(key)) /\ IsSome(order)
           THEN [sent |-> send_text(sender, FunctionCallResponse(f, <<answer, "add_item">>)),
                 calls |-> <<BackendCall("add_item", order, <<key>>)>>]
           ELSE [sent |-> send_text(sender,
                      FunctionCallResponse(f, <<"Failed - item and/or order error.">>)),
                 calls |-> <<>>]
      [] f.name = "delete_item" ->
           IF IsSome(order)
           THEN [sent |-> send_text(sender, FunctionCallResponse(f, <<"text", "delete_item">>)),
                 calls |-> <<BackendCall("delete_item", order, <<as_str(input, "itemId")>>)>>]
           ELSE [sent |-> send_text(sender,
                      FunctionCallResponse(f, <<"Failed - order not present.">>)),
                 calls |-> <<>>]
      [] f.name = "add_modifier" ->
           IF IsSome(find_modifier(key)) /\ IsSome(order)
           THEN [sent |-> send_text(sender, FunctionCallResponse(f, <<answer, "add_modifier">>)),
                 calls |-> <<BackendCall("add_modifier", order,
                                         <<as_str(input, "itemId"), key>>)>>]
           ELSE [sent |-> send_text(sender,
                      FunctionCallResponse(f, <<"Failed - item and/or order error.">>)),
                 calls |-> <<>>]
      [] f.name = "order" ->
           IF IsSome(order)
           THEN [sent |-> send_text(sender, FunctionCallResponse(f, <<"text", "order">>)),
                 calls |-> <<BackendCall("order", order, <<>>)>>]
           ELSE [sent |-> send_text(sender,
                      FunctionCallResponse(f, <<"Failed - no order present.">>)),
                 calls |-> <<>>]

\* function_call without the client_side test
function_call_no_skip(f, order, sender, answer) ==
    LET parsed == from_str(f.arguments) IN
    IF ~parsed.ok THEN invalid_arguments(f, sender)
    ELSE IF f.name \in FunctionNames
         THEN known_function(f, parsed.value, order, sender, answer)
         ELSE unknown_function(f, sender)

\* the body of `for f in functions` for one item (lines 263-491)
function_call(f, order, sender, answer) ==
    IF ~f.client_side THEN NoEffect
    ELSE LET parsed == from_str(f.arguments) IN
         IF ~parsed.ok THEN invalid_arguments(f, sender)
         ELSE IF f.name \in FunctionNames
              THEN known_function(f, parsed.value, order, sender, answer)
              ELSE unknown_function(f, sender)

\* a loop that stops after the first item
function_calls_first_only(functions, order, sender, answer) ==
    IF functions = <<>> THEN NoEffect
    ELSE function_call(Head(functions), order, sender, answer)

\* the whole loop over the items of one request, in order
RECURSIVE function_calls(_, _, _, _)
function_calls(functions, order, sender, answer) ==
    IF functions = <<>> THEN NoEffect
    ELSE LET first == function_call(Head(functions), order, sender, answer)
             rest == function_calls(Tail(functions), order, sender, answer)
         IN [sent |-> first.sent \o rest.sent, calls |-> first.calls \o rest.calls]

\* ------------------------------------------- upstream messages (sts_receiver)
\* the upstream branch is taken only while a receiver exists and its stream
\* still yields messages
StsReadable == taskState = "running" /\ IsSome(sts_receiver) /\ ~sts_ended

\* Text: Welcome { session_id }; the agent names the session of this connection
StsWelcome ==
    /\ StsReadable
    /\ Ran("Welcome", sts_receiver)
    /\ dg_request_id' = Some(Unwrap(sts_receiver))
    /\ Out(<<>>, <<>>, <<>>, <<>>, <<>>, <<>>)
    /\ UNCHANGED <<taskState, qu_order_id, sts_receiver, sts_sender, agent_speaking,
                   buffered_audio, sts_ended, connOpened, ordersCreated, arrived>>

\* UserStartedSpeaking published whatever the barge-in flag
user_started_speaking_always == <<"UserStartedSpeaking">>

\* Text: UserStartedSpeaking; published to the message task only with barge-in
user_started_speaking == IF ENABLE_BARGE_IN THEN <<"UserStartedSpeaking">> ELSE <<>>

StsUserStartedSpeaking ==
    /\ StsReadable
    /\ Ran("StsUserStartedSpeaking", <<>>)
    /\ Out(<<>>, <<>>, user_started_speaking, <<>>, <<>>, <<>>)
    /\ UNCHANGED <<taskState, dg_request_id, qu_order_id, sts_receiver, sts_sender,
                   agent_speaking, buffered_audio, sts_ended, connOpened,
                   ordersCreated, arrived>>

\* Text: FunctionCallRequest { functions }
StsFunctionCallRequest(functions, answer) ==
    /\ StsReadable
    /\ Ran("FunctionCallRequest", functions)
    /\ LET r == function_calls(functions, qu_order_id, sts_sender, answer) IN
         Out(<<>>, r.sent, <<>>, <<>>, <<>>, r.calls)
    /\ UNCHANGED <<taskState, dg_request_id, qu_order_id, sts_receiver, sts_sender,
                   agent_speaking, buffered_audio, sts_ended, connOpened,
                   ordersCreated, arrived>>

\* Text that is no ServerMessage (logged), and Ping/Pong/Frame messages
StsIgnored ==
    /\ StsReadable
    /\ Ran("StsIgnored", <<>>)
    /\ Out(<<>>, <<>>, <<>>, <<>>, <<>>, <<>>)
    /\ UNCHANGED <<taskState, dg_request_id, qu_order_id, sts_receiver, sts_sender,
                   agent_speaking, buffered_audio, sts_ended, connOpened,
                   ordersCreated, arrived>>

\* sts_binary buffering a frame that arrives while the agent is silent
sts_binary_buffers_idle(speaking, buffer, audio) ==
    [agent_speaking |-> speaking, buffered_audio |-> buffer \o audio, toNexeo |-> <<>>]

\* sts_binary without the agent_speaking test
sts_binary_always_sends(speaking, buffer, audio) ==
    [agent_speaking |-> TRUE, buffered_audio |-> buffer, toNexeo |-> <<encode(audio)>>]

\* Binary that puts the new audio in front of the buffer
sts_binary_prepends(speaking, buffer, audio) ==
    IF ~speaking
    THEN [agent_speaking |-> TRUE, buffered_audio |-> buffer, toNexeo |-> <<encode(audio)>>]
    ELSE [agent_speaking |-> speaking, buffered_audio |-> audio \o buffer, toNexeo |-> <<>>]

\* Binary: agent speech (lines 499-526)
sts_binary(speaking, buffer, audio) ==
    IF ~speaking
    THEN [agent_speaking |-> TRUE, buffered_audio |-> buffer, toNexeo |-> <<encode(audio)>>]
    ELSE [agent_speaking |-> speaking, buffered_audio |-> buffer \o audio, toNexeo |-> <<>>]

StsBinary(audio) ==
    /\ StsReadable
    /\ agent_speaking => Len(buffered_audio) + Len(audio) <= MaxBuffer
    /\ Ran("StsBinary", audio)
    /\ LET r == sts_binary(agent_speaking, buffered_audio, audio) IN
         /\ agent_speaking' = r.agent_speaking
         /\ buffered_audio' = r.buffered_audio
         /\ Out(r.toNexeo, <<>>, <<>>, <<>>, <<>>, <<>>)
    /\ UNCHANGED <<taskState, dg_request_id, qu_order_id, sts_receiver, sts_sender,
                   sts_ended, connOpened, ordersCreated, arrived>>

\* Close (lines 527-529): the order is persisted and no local changes; the
\* stream yields nothing after its Close frame
StsClose ==
    /\ StsReadable
    /\ Ran("StsClose", <<>>)
    /\ Out(<<>>, <<>>, <<>>,
           <<PersistCall(qu_order_id, dg_request_id, "close")>>,
           persist_order(qu_order_id, dg_request_id, "close"),
           persist_backend(qu_order_id, dg_request_id))
    /\ sts_ended' = TRUE
    /\ UNCHANGED <<taskState, dg_request_id, qu_order_id, sts_receiver, sts_sender,
                   agent_speaking, buffered_audio, connOpened, ordersCreated, arrived>>

\* a read error on the upstream socket: message.unwrap() panics (line 233)
StsReadError ==
    /\ StsReadable
    /\ Ran("StsReadError", <<>>)
    /\ Panic
    /\ Out(<<>>, <<>>, <<>>, <<>>, <<>>, <<>>)
    /\ sts_ended' = FALSE
    /\ UNCHANGED <<connOpened, ordersCreated, arrived>>

\* ------------------------------------------ device audio (nexeo_receiver)
\* channel extraction taking bytes 2 and 3 of every 4-byte group
capture_frame_high(message) ==
    LET sample_num == Len(message) \div 4 IN
    [j \in 1 .. 2 * sample_num |->
        IF j % 2 = 1 THEN message[3 + ((j - 1) \div 2) * 4]
                     ELSE message[4 + ((j - 2) \div 2) * 4]]

\* channel extraction (lines 551-558): bytes 0 and 1 of every 4-byte group
capture_frame(message) ==
    LET sample_num == Len(message) \div 4 IN
    [j \in 1 .. 2 * sample_num |->
        IF j % 2 = 1 THEN message[1 + ((j - 1) \div 2) * 4]
                     ELSE message[2 + ((j - 2) \div 2) * 4]]

KeepAlive == [type |-> "KeepAlive"]

\* nexeo_binary without the `if let Some(sender)` test
nexeo_binary_unchecked(speaking, sender, message) ==
    IF ~ENABLE_BARGE_IN /\ speaking
    THEN [sent |-> send_text(sender, KeepAlive), unwrapped |-> FALSE]
    ELSE [sent |-> <<[conn |-> IF IsSome(sender) THEN Unwrap(sender) ELSE 0,
                      kind |-> "Binary", body |-> capture_frame(message)]>>,
          unwrapped |-> TRUE]

\* nexeo_binary forwarding the frame as it arrived
nexeo_binary_raw(speaking, sender, message) ==
    IF ~ENABLE_BARGE_IN /\ speaking
    THEN [sent |-> send_text(sender, KeepAlive), unwrapped |-> FALSE]
    ELSE IF IsSome(sender)
         THEN [sent |-> <<StsMsg(sender, "Binary", message)>>, unwrapped |-> TRUE]
         ELSE [sent |-> <<>>, unwrapped |-> FALSE]

\* nexeo_binary without the agent_speaking test: every frame is forwarded
nexeo_binary_barge_in(speaking, sender, message) ==
    IF IsSome(sender)
    THEN [sent |-> <<StsMsg(sender, "Binary", capture_frame(message))>>,
          unwrapped |-> TRUE]
    ELSE [sent |-> <<>>, unwrapped |-> FALSE]

\* what a device frame makes the task hand to the upstream sender
nexeo_binary(speaking, sender, message) ==
    IF ~ENABLE_BARGE_IN /\ speaking
    THEN [sent |-> send_text(sender, KeepAlive), unwrapped |-> FALSE]
    ELSE IF IsSome(sender)
         THEN [sent |-> <<StsMsg(sender, "Binary", capture_frame(message))>>,
               unwrapped |-> TRUE]
         ELSE [sent |-> <<>>, unwrapped |-> FALSE]

\* delivered: whether the upstream socket accepts the message; a connection
\* that has received its Close frame accepts nothing.  Only the result of
\* the capture-frame send is unwrapped (line 566).
NexeoBinary(message, delivered) ==
    /\ taskState = "running"
    /\ LET r == nexeo_binary(agent_speaking, sts_sender, message)
           failed == r.unwrapped /\ (sts_ended \/ ~delivered)
       IN
         /\ ~delivered => (r.unwrapped /\ ~sts_ended)
         /\ Ran("NexeoBinary", <<message, delivered>>)
         /\ Out(<<>>, r.sent, <<>>, <<>>, <<>>, <<>>)
         /\ IF failed
            THEN Panic /\ sts_ended' = FALSE
            ELSE UNCHANGED <<taskState, dg_request_id, qu_order_id, sts_receiver,
                             sts_sender, agent_speaking, buffered_audio, sts_ended>>
    /\ UNCHANGED <<connOpened, ordersCreated, arrived>>

\* any other device message, or a device read error: the `_` arm
NexeoIgnored ==
    /\ taskState = "running"
    /\ Ran("NexeoIgnored", <<>>)
    /\ Out(<<>>, <<>>, <<>>, <<>>, <<>>, <<>>)
    /\ UNCHANGED <<taskState, dg_request_id, qu_order_id, sts_receiver, sts_sender,
                   agent_speaking, buffered_audio, sts_ended, connOpened,
                   ordersCreated, arrived>>

\* ---------------------------------------------------------- specifications
ArriveOutcomes == {"ok", "connect_failed", "handshake_failed"}

\* the order backend's reply is consulted by add_item and add_modifier only
AnswersFor(functions) ==
    IF \E i \in 1 .. Len(functions) : functions[i].name \in {"add_item", "add_modifier"}
    THEN {"Ok", "Err"}
    ELSE {"Ok"}

Next ==
    \/ \E outcome \in ArriveOutcomes : XchArrive(outcome, MaxConn)
    \/ XchDepart
    \/ XchEscalation
    \/ XchPlayed
    \/ XchUnhandled
    \/ StsWelcome
    \/ StsUserStartedSpeaking
    \/ \E functions \in SingleRequests : \E answer \in AnswersFor(functions) :
          StsFunctionCallRequest(functions, answer)
    \/ StsIgnored
    \/ \E audio \in AudioFrames : StsBinary(audio)
    \/ StsClose
    \/ StsReadError
    \/ \E message \in DeviceFrames, delivered \in BOOLEAN : NexeoBinary(message, delivered)
    \/ NexeoIgnored

Spec == Init /\ [][Next]_vars

\* the same task with requests of up to MaxFuncs items; the audio it relays
\* is one empty agent frame and one device frame
FnAudioFrames == {<<>>}

FnDeviceFrames == {<<11, 12, 13, 14>>}

NextFn ==
    \/ \E outcome \in ArriveOutcomes : XchArrive(outcome, MaxFnConn)
    \/ XchDepart
    \/ XchEscalation
    \/ XchPlayed
    \/ XchUnhandled
    \/ StsWelcome
    \/ StsUserStartedSpeaking
    \/ \E functions \in Requests : \E answer \in AnswersFor(functions) :
          StsFunctionCallRequest(functions, answer)
    \/ StsIgnored
    \/ \E audio \in FnAudioFrames : StsBinary(audio)
    \/ StsClose
    \/ StsReadError
    \/ \E message \in FnDeviceFrames, delivered \in BOOLEAN : NexeoBinary(message, delivered)
    \/ NexeoIgnored

SpecFn == Init /\ [][NextFn]_vars

\* POST /settings (http.rs 78-88) replaces the configuration
handle_settings(value) ==
    /\ settings' = value
    /\ last' = [op |-> "handle_settings", arg |-> value]
    /\ UNCHANGED <<taskVars, tick, connVars, recording, runs, sent>>

SettingsValues == {"default", "updated"}

\* the audio task while an operator posts settings
NextSettings ==
    \/ \E value \in SettingsValues : handle_settings(value)
    \/ \E outcome \in ArriveOutcomes : XchArrive(outcome, MaxConn)
    \/ XchDepart
    \/ StsWelcome
    \/ StsClose
    \/ \E message \in FnDeviceFrames, delivered \in BOOLEAN : NexeoBinary(message, delivered)

SpecSettings == Init /\ [][NextSettings]_vars

\* a request of one item that the order backend answers
RecRequests ==
    {WithIds(<<[name |-> "order",
                arguments |-> "{\"itemPathKey\":\"k1\",\"itemId\":\"i1\",\"query\":\"q\",\"parent\":\"k1\"}",
                client_side |-> TRUE]>>)}

\* one run of the audio task with its history recorded, ended after MaxRuns
\* handler runs; the device frames are one sample and two samples with a
\* trailing byte
RecAudioFrames == {<<7>>, <<200>>}

RecDeviceFrames == {<<11, 12, 13, 14>>, <<101, 102, 103, 104, 105, 106, 107, 108, 109>>}

InitRec ==
    /\ Constructed
    /\ Started
    /\ last = [op |-> "init", arg |-> <<>>]
    /\ recording = TRUE

NextRec ==
    \/ XchArrive("ok", MaxConn)
    \/ XchDepart
    \/ XchEscalation
    \/ XchPlayed
    \/ \E audio \in RecAudioFrames : StsBinary(audio)
    \/ \E functions \in RecRequests : StsFunctionCallRequest(functions, "Ok")
    \/ StsClose
    \/ \E message \in RecDeviceFrames, delivered \in BOOLEAN : NexeoBinary(message, delivered)

SpecRec == InitRec /\ [][NextRec]_vars

\* the channel extraction applied to every frame of up to MaxCaptureLen bytes
CaptureInputs == SeqsUpTo({1, 2}, MaxCaptureLen)

InitCapture ==
    /\ Constructed
    /\ Started
    /\ \E message \in CaptureInputs : last = [op |-> "message", arg |-> message]
    /\ recording = FALSE

ExtractCapture ==
    /\ last.op = "message"
    /\ last' = [op |-> "capture_frame", arg |-> <<last.arg, capture_frame(last.arg)>>]
    /\ UNCHANGED <<taskVars, tick, connVars, recording, runs, sent, settings>>

SpecCapture == InitCapture /\ [][ExtractCapture]_vars

\* ------------------------------------------------ connections and registry
\* The admission handlers and the socket tasks of the device's connections.
\* An audio task is described here by what decides which branches of its
\* select! are enabled: the receiver it holds, the device socket and the
\* upstream connection.  Messages that change none of these (upstream text
\* and audio, non-text device messages) are left out, and so is the
\* audio-to-message branch of the message task, which has no producer while
\* ENABLE_BARGE_IN is false.
\*
\* The two registry maps are each behind a Mutex.  A handler that takes and
\* releases a lock without waiting in between is one step.  message.rs 164-209
\* keeps the lock of message_to_audio_handles across its sends, and audio.rs
\* 60-84 keeps the lock of audio_to_message_handles while it waits for the
\* other: a task that waits while holding a lock is in a state of its own
\* ("sending", "registering"), and the steps that need the lock are disabled.

\* the blacklist test that accepts every session id
is_blacklisted_never(list, uid) == FALSE

\* the blacklist test of both admission handlers
is_blacklisted(list, uid) == uid \in list

\* an insert that keeps a prior entry of the key
insert_if_absent(handles, uid, channel) ==
    IF IsSome(handles[uid]) THEN handles ELSE [handles EXCEPT ![uid] = Some(channel)]

\* HashMap::insert: the entry replaces any prior entry of the key
insert(handles, uid, channel) == [handles EXCEPT ![uid] = Some(channel)]

contains_key(handles, uid) == IsSome(handles[uid])

\* bookkeeping of one handler run of the connection layer: the handlers of
\* a request or of a device message record their input and outcome, every
\* other step of a task is recorded as a step
RanConn(op, arg) ==
    /\ last' = [op |-> op, arg |-> arg]
    /\ UNCHANGED <<taskVars, tick, recording, runs, sent, settings>>

\* futures::channel::mpsc::channel(10), empty.  parked: the sender has
\* filled its slot beyond the buffer and waits for the receiver; sent and
\* received are the history of the channel, kept when recording is set.
EmptyChannel == [queue |-> <<>>, parked |-> FALSE, sent |-> <<>>, received |-> <<>>]

\* a queue that refuses the event when the buffer is full
enqueue_lossy(queue, event) ==
    IF Len(queue) >= ChannelBuffer THEN queue ELSE Append(queue, event)

\* queue_push_and_signal: the event goes to the back of the queue
enqueue(queue, event) == Append(queue, event)

\* tx.send(event).await for each event in turn: an event is pushed, and the
\* sender whose push takes the queue beyond the buffer is parked; its send
\* does not return before the receiver has taken an event
RECURSIVE send_all(_, _)
send_all(channel, events) ==
    IF events = <<>>
    THEN [channel |-> channel, pending |-> <<>>, blocked |-> FALSE]
    ELSE LET pushed == [channel EXCEPT
                           !.queue = enqueue(@, Head(events)),
                           !.sent = IF recording THEN Append(@, Head(events)) ELSE @,
                           !.parked = Len(channel.queue) + 1 > ChannelBuffer]
         IN IF pushed.parked
            THEN [channel |-> pushed, pending |-> Tail(events), blocked |-> TRUE]
            ELSE send_all(pushed, Tail(events))

\* Receiver::next yielding an event: the event leaves the queue and a parked
\* sender is woken
receive(channel) ==
    [channel EXCEPT !.queue = Tail(@),
                    !.parked = FALSE,
                    !.received = IF recording THEN Append(@, Head(channel.queue)) ELSE @]

\* the lock of message_to_audio_handles is held by a message task that
\* waits in a send (message.rs 164-209)
MessageToAudioLocked ==
    \E m \in 1 .. Len(messageConns) : messageConns[m].pc = "sending"

\* the lock of audio_to_message_handles is held by a handle_audio that
\* waits for the other lock (audio.rs 60-75)
AudioToMessageLocked ==
    \E c \in 1 .. Len(audioConns) : audioConns[c].pc = "registering"

\* the Mutex around a channel's receiver is held by the task that locked it
\* until that task ends
RxLocked(conns, channel) ==
    \E i \in 1 .. Len(conns) :
        conns[i].pc \in {"running", "sending"} /\ conns[i].rx = Some(channel)

\* next() on a receiver yields None: every sender is dropped (the registry
\* entry that owns the sender was replaced) and nothing is queued
ChannelClosed(handles, uid, channel) ==
    handles[uid] # Some(channel) /\ channels[channel].queue = <<>>

\* POST /blacklist replaces the blacklist
handle_post_blacklist(payload) ==
    /\ blacklist' = payload
    /\ RanConn("handle_post_blacklist", payload)
    /\ UNCHANGED <<audio_to_message_handles, message_to_audio_handles, channels,
                   published, audioConns, messageConns>>

\* GET /audio: the blacklist test, then the registration of a new channel
\* pair under the session id, then the upgrade
handle_audio(uid) ==
    /\ IF is_blacklisted(blacklist, uid)
       THEN /\ RanConn("handle_audio", <<uid, "NOT_FOUND">>)
            /\ UNCHANGED <<audio_to_message_handles, message_to_audio_handles,
                           channels, audioConns>>
       ELSE /\ Len(audioConns) + Len(messageConns) < MaxAdmitted
            /\ ~AudioToMessageLocked
            /\ audio_to_message_handles' =
                   insert(audio_to_message_handles, uid, Len(channels) + 1)
            /\ channels' = channels \o <<EmptyChannel, EmptyChannel>>
            /\ IF MessageToAudioLocked
               THEN /\ RanConn("handle_audio", <<uid, "WAITING">>)
                    /\ UNCHANGED message_to_audio_handles
                    /\ audioConns' = Append(audioConns,
                           [uid |-> uid, a2m |-> Len(channels) + 1,
                            m2a |-> Len(channels) + 2, pc |-> "registering",
                            rx |-> None, nexeo |-> "open", sts |-> "none"])
               ELSE /\ RanConn("handle_audio", <<uid, "UPGRADE">>)
                    /\ message_to_audio_handles' =
                           insert(message_to_audio_handles, uid, Len(channels) + 2)
                    /\ audioConns' = Append(audioConns,
                           [uid |-> uid, a2m |-> Len(channels) + 1,
                            m2a |-> Len(channels) + 2, pc |-> "upgraded",
                            rx |-> None, nexeo |-> "open", sts |-> "none"])
    /\ UNCHANGED <<blacklist, published, messageConns>>

\* handle_audio from the lock of message_to_audio_handles on (lines 74-86)
handle_audio_resume(c) ==
    /\ c \in 1 .. Len(audioConns)
    /\ audioConns[c].pc = "registering"
    /\ ~MessageToAudioLocked
    /\ message_to_audio_handles' =
           insert(message_to_audio_handles, audioConns[c].uid, audioConns[c].m2a)
    /\ audioConns' = [audioConns EXCEPT ![c].pc = "upgraded"]
    /\ RanConn("step", <<>>)
    /\ UNCHANGED <<blacklist, audio_to_message_handles, channels, published,
                   messageConns>>

\* handle_audio_socket up to the clone of the receiver (lines 93-104)
audio_socket_start(c) ==
    /\ c \in 1 .. Len(audioConns)
    /\ audioConns[c].pc = "upgraded"
    /\ ~MessageToAudioLocked
    /\ LET handle == message_to_audio_handles[audioConns[c].uid] IN
         audioConns' = IF handle = None
                       THEN [audioConns EXCEPT ![c].pc = "returned"]
                       ELSE [audioConns EXCEPT ![c].pc = "locking", ![c].rx = handle]
    /\ RanConn("step", <<>>)
    /\ UNCHANGED <<blacklist, audio_to_message_handles, message_to_audio_handles,
                   channels, published, messageConns>>

\* xch_rx.lock().await (line 106), then the locals and the loop
audio_socket_lock(c) ==
    /\ c \in 1 .. Len(audioConns)
    /\ audioConns[c].pc = "locking"
    /\ ~RxLocked(audioConns, Unwrap(audioConns[c].rx))
    /\ audioConns' = [audioConns EXCEPT ![c].pc = "running"]
    /\ RanConn("step", <<>>)
    /\ UNCHANGED <<blacklist, audio_to_message_handles, message_to_audio_handles,
                   channels, published, messageConns>>

\* a panic ends the task: its locals and the device socket are dropped
Panicked(conn) == [conn EXCEPT !.pc = "panicked", !.sts = "none", !.nexeo = "closed"]

\* the cross-channel arms (lines 131-223) on the task's upstream connection
audio_event(conn, event, outcome) ==
    CASE event = "Arrive" ->
           IF outcome = "ok" THEN [conn EXCEPT !.sts = "open"] ELSE Panicked(conn)
      [] event \in {"Depart", "Escalation"} -> [conn EXCEPT !.sts = "none"]
      [] OTHER -> conn

\* Some(event) = xch_rx.next()
audio_xch_event(c, outcome) ==
    /\ c \in 1 .. Len(audioConns)
    /\ audioConns[c].pc = "running"
    /\ channels[Unwrap(audioConns[c].rx)].queue # <<>>
    /\ LET ch == Unwrap(audioConns[c].rx)
           event == Head(channels[ch].queue)
       IN /\ outcome = "ok" \/ event = "Arrive"
          /\ channels' = [channels EXCEPT ![ch] = receive(@)]
          /\ audioConns' = [audioConns EXCEPT ![c] = audio_event(@, event, outcome)]
          /\ RanConn("step", <<>>)
    /\ UNCHANGED <<blacklist, audio_to_message_handles, message_to_audio_handles,
                   published, messageConns>>

\* Some(message) = receiver.next() on the upstream connection: its Close
\* frame ends the stream, a read error panics at message.unwrap()
audio_sts_message(c, kind) ==
    /\ c \in 1 .. Len(audioConns)
    /\ audioConns[c].pc = "running"
    /\ audioConns[c].sts = "open"
    /\ audioConns' = [audioConns EXCEPT ![c] =
                         IF kind = "Close" THEN [@ EXCEPT !.sts = "ended"] ELSE Panicked(@)]
    /\ RanConn("step", <<>>)
    /\ UNCHANGED <<blacklist, audio_to_message_handles, message_to_audio_handles,
                   channels, published, messageConns>>

\* Some(message) = nexeo_receiver.next(): a device frame; the send of its
\* capture frame can fail only on an upstream sender, and then panics
audio_nexeo_message(c, failed) ==
    /\ c \in 1 .. Len(audioConns)
    /\ audioConns[c].pc = "running"
    /\ audioConns[c].nexeo = "open"
    /\ failed => audioConns[c].sts # "none"
    /\ audioConns' = IF failed THEN [audioConns EXCEPT ![c] = Panicked(@)] ELSE audioConns
    /\ RanConn("audio_nexeo_message", <<failed>>)
    /\ UNCHANGED <<blacklist, audio_to_message_handles, message_to_audio_handles,
                   channels, published, messageConns>>

\* the device closes its audio connection: nexeo_receiver.next() yields None
audio_nexeo_close(c) ==
    /\ c \in 1 .. Len(audioConns)
    /\ audioConns[c].pc \in {"upgraded", "locking", "running"}
    /\ audioConns[c].nexeo = "open"
    /\ audioConns' = [audioConns EXCEPT ![c].nexeo = "closed"]
    /\ RanConn("step", <<>>)
    /\ UNCHANGED <<blacklist, audio_to_message_handles, message_to_audio_handles,
                   channels, published, messageConns>>

\* `else => break` (line 574): all three branches of the select! are disabled
audio_socket_exit(c) ==
    /\ c \in 1 .. Len(audioConns)
    /\ audioConns[c].pc = "running"
    /\ audioConns[c].nexeo = "closed"
    /\ audioConns[c].sts # "open"
    /\ ChannelClosed(message_to_audio_handles, audioConns[c].uid, Unwrap(audioConns[c].rx))
    /\ audioConns' = [audioConns EXCEPT ![c].pc = "returned", ![c].sts = "none"]
    /\ RanConn("step", <<>>)
    /\ UNCHANGED <<blacklist, audio_to_message_handles, message_to_audio_handles,
                   channels, published, messageConns>>

\* GET /message: the blacklist test; the retry loop follows.  candidates
\* are the session ids a specification lets a message connection present.
handle_message(uid, candidates) ==
    /\ uid \in candidates
    /\ IF is_blacklisted(blacklist, uid)
       THEN /\ RanConn("handle_message", <<uid, "NOT_FOUND">>)
            /\ UNCHANGED messageConns
       ELSE /\ Len(audioConns) + Len(messageConns) < MaxAdmitted
            /\ RanConn("handle_message", <<uid, "ADMITTED">>)
            /\ messageConns' = Append(messageConns,
                   [uid |-> uid, pc |-> "lookup", iterations |-> 0, lookups |-> <<>>,
                    elapsed |-> 0, rx |-> None, nexeo |-> "open", pending |-> <<>>])
    /\ UNCHANGED <<blacklist, audio_to_message_handles, message_to_audio_handles,
                   channels, published, audioConns>>

\* one lookup of the retry loop (message.rs 62-66); lookups records the
\* seconds since the attempt began at which each lookup was made
message_lookup(m) ==
    /\ m \in 1 .. Len(messageConns)
    /\ messageConns[m].pc = "lookup"
    /\ ~AudioToMessageLocked
    /\ messageConns' = [messageConns EXCEPT
           ![m].lookups = Append(@, messageConns[m].elapsed),
           ![m].pc = IF contains_key(audio_to_message_handles, messageConns[m].uid)
                     THEN "upgraded" ELSE "sleep"]
    /\ RanConn("step", <<>>)
    /\ UNCHANGED <<blacklist, audio_to_message_handles, message_to_audio_handles,
                   channels, published, audioConns>>

\* the retry budget ending one lookup early
retry_exhausted_early(iterations) == iterations = 3

\* `if iterations == 4` (message.rs 69)
retry_exhausted(iterations) == iterations = 4

\* the sleep of 5 seconds and what follows it (message.rs 67-73)
message_sleep(m) ==
    /\ m \in 1 .. Len(messageConns)
    /\ messageConns[m].pc = "sleep"
    /\ messageConns' = [messageConns EXCEPT
           ![m].elapsed = @ + 5,
           ![m].pc = IF retry_exhausted(messageConns[m].iterations)
                     THEN "bad_request" ELSE "lookup",
           ![m].iterations = IF retry_exhausted(@) THEN @ ELSE @ + 1]
    /\ RanConn("step", <<>>)
    /\ UNCHANGED <<blacklist, audio_to_message_handles, message_to_audio_handles,
                   channels, published, audioConns>>

\* handle_message_socket up to the clone of the receiver (message.rs 113-127)
message_socket_start(m) ==
    /\ m \in 1 .. Len(messageConns)
    /\ messageConns[m].pc = "upgraded"
    /\ ~AudioToMessageLocked
    /\ LET handle == audio_to_message_handles[messageConns[m].uid] IN
         messageConns' = IF handle = None
                         THEN [messageConns EXCEPT ![m].pc = "returned"]
                         ELSE [messageConns EXCEPT ![m].pc = "locking", ![m].rx = handle]
    /\ RanConn("step", <<>>)
    /\ UNCHANGED <<blacklist, audio_to_message_handles, message_to_audio_handles,
                   channels, published, audioConns>>

\* xch_rx.lock().await (message.rs 129), then the loop
message_socket_lock(m) ==
    /\ m \in 1 .. Len(messageConns)
    /\ messageConns[m].pc = "locking"
    /\ ~RxLocked(messageConns, Unwrap(messageConns[m].rx))
    /\ messageConns' = [messageConns EXCEPT ![m].pc = "running"]
    /\ RanConn("step", <<>>)
    /\ UNCHANGED <<blacklist, audio_to_message_handles, message_to_audio_handles,
                   channels, published, audioConns>>

\* a control text is the set of the patterns that occur in it
contains(text, pattern) == pattern \in text

ControlTexts ==
    {{"NEXEO/request/lane1/arrive"},
     {"NEXEO/request/lane1/depart"},
     {"NEXEO/response/lane1-audio"}}

\* the tests of message.rs 173-209 as an else-if chain
classify_first_match(text) ==
    IF contains(text, "NEXEO/request/lane1/arrive") THEN <<"Arrive">>
    ELSE IF contains(text, "NEXEO/request/lane1/depart") THEN <<"Depart">>
    ELSE IF contains(text, "NEXEO/response/lane1-audio") /\ contains(text, "played")
         THEN <<"Played">>
    ELSE IF contains(text, "NEXEO/alert/crew-escalation/lane1") THEN <<"Escalation">>
    ELSE <<>>

\* the events a text publishes (message.rs 173-209)
classify(text) ==
    (IF contains(text, "NEXEO/request/lane1/arrive") THEN <<"Arrive">> ELSE <<>>)
    \o (IF contains(text, "NEXEO/request/lane1/depart") THEN <<"Depart">> ELSE <<>>)
    \o (IF contains(text, "NEXEO/response/lane1-audio") /\ contains(text, "played")
        THEN <<"Played">> ELSE <<>>)
    \o (IF contains(text, "NEXEO/alert/crew-escalation/lane1")
        THEN <<"Escalation">> ELSE <<>>)

\* Some(message) = nexeo_receiver.next(), a text (message.rs 161-211): the
\* registry is locked and the events go, one send after the other, to the
\* sender registered under the session id at this moment; the lock is
\* released when the last send has returned.  limit bounds the events
\* published in one run.
message_text(m, text, limit) ==
    /\ m \in 1 .. Len(messageConns)
    /\ messageConns[m].pc = "running"
    /\ messageConns[m].nexeo = "open"
    /\ ~MessageToAudioLocked
    /\ LET handle == message_to_audio_handles[messageConns[m].uid]
           events == classify(text)
       IN IF handle = None
          THEN /\ messageConns' = [messageConns EXCEPT ![m].pc = "returned"]
               /\ UNCHANGED <<channels, published>>
          ELSE /\ published + Len(events) <= limit
               /\ LET r == send_all(channels[Unwrap(handle)], events) IN
                    /\ channels' = [channels EXCEPT ![Unwrap(handle)] = r.channel]
                    /\ messageConns' =
                           IF r.blocked
                           THEN [messageConns EXCEPT ![m].pc = "sending",
                                                     ![m].pending = r.pending]
                           ELSE messageConns
               /\ published' = published + Len(events)
    /\ RanConn("message_text", <<m, text>>)
    /\ UNCHANGED <<blacklist, audio_to_message_handles, message_to_audio_handles,
                   audioConns>>

\* the parked send returns and the sends that follow it are made
message_send_resume(m) ==
    /\ m \in 1 .. Len(messageConns)
    /\ messageConns[m].pc = "sending"
    /\ LET ch == Unwrap(message_to_audio_handles[messageConns[m].uid])
           r == send_all(channels[ch], messageConns[m].pending)
       IN /\ ~channels[ch].parked
          /\ channels' = [channels EXCEPT ![ch] = r.channel]
          /\ messageConns' =
                 [messageConns EXCEPT ![m].pc = IF r.blocked THEN "sending" ELSE "running",
                                      ![m].pending = r.pending]
    /\ RanConn("step", <<>>)
    /\ UNCHANGED <<blacklist, audio_to_message_handles, message_to_audio_handles,
                   published, audioConns>>

\* the device closes its message connection: nexeo_receiver.next() yields None
message_nexeo_close(m) ==
    /\ m \in 1 .. Len(messageConns)
    /\ messageConns[m].pc \in {"upgraded", "locking", "running", "sending"}
    /\ messageConns[m].nexeo = "open"
    /\ messageConns' = [messageConns EXCEPT ![m].nexeo = "closed"]
    /\ RanConn("step", <<>>)
    /\ UNCHANGED <<blacklist, audio_to_message_handles, message_to_audio_handles,
                   channels, published, audioConns>>

\* `else => break` (message.rs 215): both branches of the select! are disabled
message_socket_exit(m) ==
    /\ m \in 1 .. Len(messageConns)
    /\ messageConns[m].pc = "running"
    /\ messageConns[m].nexeo = "closed"
    /\ ChannelClosed(audio_to_message_handles, messageConns[m].uid,
                     Unwrap(messageConns[m].rx))
    /\ messageConns' = [messageConns EXCEPT ![m].pc = "returned"]
    /\ RanConn("step", <<>>)
    /\ UNCHANGED <<blacklist, audio_to_message_handles, message_to_audio_handles,
                   channels, published, audioConns>>

\* the blacklists an operator posts
BlacklistPayloads == {{BlacklistedUid}, Uids}

\* admission taken alone: the connections are admitted or rejected and the
\* message connections run their retry loop; no socket task runs
NextAdm ==
    \/ \E payload \in BlacklistPayloads : handle_post_blacklist(payload)
    \/ \E uid \in Uids : handle_audio(uid)
    \/ \E uid \in Uids : handle_message(uid, Uids)
    \/ \E m \in 1 .. MaxAdmitted : message_lookup(m)
    \/ \E m \in 1 .. MaxAdmitted : message_sleep(m)

SpecAdm == Init /\ [][NextAdm]_vars

RegArriveOutcomes == {"ok", "connect_failed"}

\* the session ids that pass the blacklist of start-up
RegUids == Uids \ {BlacklistedUid}

\* the session ids an audio connection has registered
Registered == {uid \in Uids : contains_key(audio_to_message_handles, uid)}

\* the socket tasks, for message connections that find their session
\* registered at the first lookup, under the blacklist of start-up
NextReg ==
    \/ \E uid \in RegUids : handle_audio(uid)
    \/ \E c \in 1 .. MaxAdmitted : audio_socket_start(c)
    \/ \E c \in 1 .. MaxAdmitted : audio_socket_lock(c)
    \/ \E c \in 1 .. MaxAdmitted, outcome \in RegArriveOutcomes : audio_xch_event(c, outcome)
    \/ \E c \in 1 .. MaxAdmitted, kind \in {"Close", "Error"} : audio_sts_message(c, kind)
    \/ \E c \in 1 .. MaxAdmitted, failed \in BOOLEAN : audio_nexeo_message(c, failed)
    \/ \E c \in 1 .. MaxAdmitted : audio_nexeo_close(c)
    \/ \E c \in 1 .. MaxAdmitted : audio_socket_exit(c)
    \/ \E uid \in Uids : handle_message(uid, Registered)
    \/ \E m \in 1 .. MaxAdmitted : message_lookup(m)
    \/ \E m \in 1 .. MaxAdmitted : message_socket_start(m)
    \/ \E m \in 1 .. MaxAdmitted : message_socket_lock(m)
    \/ \E m \in 1 .. MaxAdmitted, text \in ControlTexts :
          message_text(m, text, MaxPublished)
    \/ \E m \in 1 .. MaxAdmitted : message_nexeo_close(m)
    \/ \E m \in 1 .. MaxAdmitted : message_socket_exit(m)

SpecReg == Init /\ [][NextReg]_vars

\* the runtime polls every task that can make progress: a step a task can
\* take by itself (no message, connection or close of the device or of the
\* agent is needed for it) is eventually taken
TaskFairness ==
    /\ \A c \in 1 .. MaxAdmitted : WF_vars(audio_socket_start(c))
    /\ \A c \in 1 .. MaxAdmitted : WF_vars(audio_socket_lock(c))
    /\ \A c \in 1 .. MaxAdmitted : WF_vars(audio_xch_event(c, "ok"))
    /\ \A c \in 1 .. MaxAdmitted : WF_vars(audio_socket_exit(c))
    /\ \A m \in 1 .. MaxAdmitted : WF_vars(message_lookup(m))
    /\ \A m \in 1 .. MaxAdmitted : WF_vars(message_socket_start(m))
    /\ \A m \in 1 .. MaxAdmitted : WF_vars(message_socket_lock(m))
    /\ \A m \in 1 .. MaxAdmitted : WF_vars(message_socket_exit(m))

SpecRegFair == Init /\ [][NextReg]_vars /\ TaskFairness

\* the substrings the message task looks for, and every text as the set of
\* those that occur in it
Patterns ==
    {"NEXEO/request/lane1/arrive", "NEXEO/request/lane1/depart",
     "NEXEO/response/lane1-audio", "played", "NEXEO/alert/crew-escalation/lane1"}

AllTexts == SUBSET Patterns

\* one session whose audio connection has registered and whose message
\* connection has entered its loop: the state after handle_audio,
\* handle_message, message_lookup, message_socket_start and
\* message_socket_lock
Paired(uid) ==
    /\ blacklist = {BlacklistedUid}
    /\ audio_to_message_handles = insert([u \in Uids |-> None], uid, 1)
    /\ message_to_audio_handles = insert([u \in Uids |-> None], uid, 2)
    /\ channels = <<EmptyChannel, EmptyChannel>>
    /\ published = 0
    /\ audioConns = <<[uid |-> uid, a2m |-> 1, m2a |-> 2, pc |-> "upgraded",
                       rx |-> None, nexeo |-> "open", sts |-> "none"]>>
    /\ messageConns = <<[uid |-> uid, pc |-> "running", iterations |-> 0,
                         lookups |-> <<0>>, elapsed |-> 0, rx |-> Some(1),
                         nexeo |-> "open", pending |-> <<>>]>>

InitText ==
    /\ Constructed
    /\ \E uid \in RegUids : Paired(uid)
    /\ last = [op |-> "init", arg |-> <<>>]
    /\ recording = FALSE

\* the message task receiving every kind of text, its events left queued
NextText ==
    \E m \in 1 .. MaxAdmitted, text \in AllTexts : message_text(m, text, MaxTextEvents)

SpecText == InitText /\ [][NextText]_vars

\* a text that publishes two different events
QueueTexts == {{"NEXEO/request/lane1/arrive", "NEXEO/request/lane1/depart"}}

InitQueue ==
    /\ Constructed
    /\ Started
    /\ last = [op |-> "init", arg |-> <<>>]
    /\ recording = TRUE

\* producers and consumer of the message-to-audio queue, up to a full queue
\* and beyond, with the history of every channel recorded
NextQueue ==
    \/ \E uid \in RegUids : handle_audio(uid)
    \/ \E c \in 1 .. MaxAdmitted : handle_audio_resume(c)
    \/ \E c \in 1 .. MaxAdmitted : audio_socket_start(c)
    \/ \E c \in 1 .. MaxAdmitted : audio_socket_lock(c)
    \/ \E c \in 1 .. MaxAdmitted : audio_xch_event(c, "ok")
    \/ \E uid \in Uids : handle_message(uid, Registered)
    \/ \E m \in 1 .. MaxAdmitted : message_lookup(m)
    \/ \E m \in 1 .. MaxAdmitted : message_socket_start(m)
    \/ \E m \in 1 .. MaxAdmitted : message_socket_lock(m)
    \/ \E m \in 1 .. MaxAdmitted, text \in QueueTexts : message_text(m, text, MaxQueued)
    \/ \E m \in 1 .. MaxAdmitted : message_send_resume(m)

SpecQueue == InitQueue /\ [][NextQueue]_vars

\* ------------------------------------------------------------- properties
\* the payload carried by a device-bound frame
Payload(frame) == SubSeq(frame, HeaderLen + 1, Len(frame))

Active == IsSome(sts_sender)

\* C1: as long as the audio task has processed no Arrive, no upstream
\* connection has been opened, the task holds no upstream sender or receiver,
\* and no handler (in particular no device audio frame) has handed anything
\* to an upstream sender.
C1_NoUpstreamBeforeArrive ==
    ~arrived =>
        /\ connOpened = 0
        /\ sts_sender = None
        /\ sts_receiver = None
        /\ toSts = <<>>

\* a device frame of at least one full sample was processed before any
\* Arrive, as the second event of the session
C1_Witness ==
    /\ ~arrived
    /\ last.op = "NexeoBinary"
    /\ Len(last.arg[1]) >= 4
    /\ tick = 0

\* C2: an upstream binary frame received while agent_speaking is false is
\* sent to the device at once as one frame carrying its bytes, and
\* agent_speaking becomes true; received while agent_speaking is true its
\* bytes are appended to the buffer and nothing is sent to the device.
C2_UpstreamBinary ==
    [][last'.op = "StsBinary" =>
          IF ~agent_speaking
          THEN /\ Len(toNexeo') = 1
               /\ Payload(toNexeo'[1]) = last'.arg
               /\ agent_speaking'
               /\ buffered_audio' = buffered_audio
          ELSE /\ toNexeo' = <<>>
               /\ buffered_audio' = buffered_audio \o last'.arg
               /\ agent_speaking']_vars

\* a second frame arrived before Played and was only buffered
C2_Witness ==
    /\ last.op = "StsBinary"
    /\ last.arg # <<>>
    /\ toNexeo = <<>>
    /\ buffered_audio = last.arg
    /\ agent_speaking

\* C3: right after any Arrive is processed, agent_speaking is false and the
\* playback buffer is empty.
C3_ArriveResetsPlayback ==
    (last.op = "Arrive" /\ taskState = "running") =>
        (~agent_speaking /\ buffered_audio = <<>>)

\* C4: Played with a non-empty buffer sends exactly one frame whose payload
\* is the whole buffer in order, empties the buffer and leaves agent_speaking
\* true; Played with an empty buffer sends nothing and leaves agent_speaking
\* false.
C4_PlayedFlush ==
    [][last'.op = "Played" =>
          IF buffered_audio # <<>>
          THEN /\ Len(toNexeo') = 1
               /\ Payload(toNexeo'[1]) = buffered_audio
               /\ buffered_audio' = <<>>
               /\ agent_speaking'
          ELSE /\ toNexeo' = <<>>
               /\ buffered_audio' = <<>>
               /\ ~agent_speaking']_vars

\* a Played flushed a buffer that two different bytes had been appended to
C4_Witness ==
    /\ last.op = "Played"
    /\ Len(toNexeo) = 1
    /\ \E i, j \in 1 .. Len(Payload(toNexeo[1])) :
          Payload(toNexeo[1])[i] # Payload(toNexeo[1])[j]
    /\ agent_speaking

SessionEndReason(op) == IF op = "Depart" THEN "depart" ELSE "escalation"

\* C5: Depart or Escalation processed while Active clears the order id and
\* both halves of the upstream connection, resets agent_speaking and the
\* buffer, and calls persist_order exactly once, for the order that was in
\* progress and with reason "depart" or "escalation"; an upstream Close frame
\* calls persist_order exactly once with reason "close".
C5_SessionEndPersists ==
    [][/\ (last'.op \in {"Depart", "Escalation"} /\ Active) =>
            /\ qu_order_id' = None
            /\ sts_sender' = None
            /\ sts_receiver' = None
            /\ ~agent_speaking'
            /\ buffered_audio' = <<>>
            /\ IsSome(qu_order_id)
            /\ persistCalls' = <<PersistCall(qu_order_id, dg_request_id,
                                             SessionEndReason(last'.op))>>
            /\ Len(written') <= 1
            /\ \A i \in 1 .. Len(written') :
                  /\ written'[i].order = Unwrap(qu_order_id)
                  /\ written'[i].reason = SessionEndReason(last'.op)
       /\ last'.op = "StsClose" =>
            /\ persistCalls' = <<PersistCall(qu_order_id, dg_request_id, "close")>>
            /\ Len(written') <= 1
            /\ \A i \in 1 .. Len(written') : written'[i].reason = "close"]_vars

\* an Escalation ended an Active period whose order was written to a file
C5_Witness ==
    /\ last.op = "Escalation"
    /\ Len(written) = 1
    /\ written[1].reason = "escalation"
    /\ IsSome(persistCalls[1].order)

\* C6: after an upstream Close frame is processed the session is Idle: the
\* order id and both halves of the upstream connection are cleared.
C6_CloseMakesIdle ==
    last.op = "StsClose" =>
        /\ qu_order_id = None
        /\ sts_sender = None
        /\ sts_receiver = None

\* C7: an Arrive processed while the session is Active neither opens another
\* upstream connection nor replaces the order in progress.
C7_ArriveOncePerPeriod ==
    [][(last'.op = "Arrive" /\ Active) =>
          /\ connOpened' = connOpened
          /\ ordersCreated' = ordersCreated
          /\ qu_order_id' = qu_order_id]_vars

\* C8: Depart, Escalation, Played and UserStartedSpeaking processed while
\* Idle leave the lifecycle state, agent_speaking, the buffer, the order id
\* and the agent session id unchanged, send nothing to the device or
\* upstream, and write no order file.
C8_IdleEventsIgnored ==
    [][(last'.op \in {"Depart", "Escalation", "Played", "UserStartedSpeaking"} /\ ~Active) =>
          /\ UNCHANGED locals
          /\ ~Active'
          /\ toNexeo' = <<>>
          /\ toSts' = <<>>
          /\ written' = <<>>]_vars

\* a Depart was processed while Idle, after an earlier period left an agent
\* session id behind
C8_Witness ==
    /\ last.op = "Depart"
    /\ Len(persistCalls) = 1
    /\ persistCalls[1].order = None
    /\ IsSome(persistCalls[1].session)

\* the positions in toSts of the responses that carry call id i
ResponsesFor(i) == {j \in 1 .. Len(toSts) : toSts[j].body.id = i}

\* the items of a request that reach a backend operation at all
Dispatched(fs) ==
    {i \in 1 .. Len(fs) :
        fs[i].client_side /\ from_str(fs[i].arguments).ok /\ fs[i].name \in FunctionNames}

\* C9: for every client-side item whose arguments are not valid JSON exactly
\* one FunctionCallResponse with the item's id and name and an error content
\* is sent upstream, no backend operation is invoked for it (the backend
\* operations of a request are at most as many as its other, dispatched
\* items), and every later dispatched item of the request is still answered.
C9_InvalidArguments ==
    last.op = "FunctionCallRequest" =>
        LET fs == last.arg IN
        /\ \A i \in 1 .. Len(fs) :
              (fs[i].client_side /\ ~from_str(fs[i].arguments).ok) =>
                  /\ Cardinality(ResponsesFor(i)) = 1
                  /\ \A j \in ResponsesFor(i) :
                        /\ toSts[j].conn = Unwrap(sts_sender)
                        /\ toSts[j].kind = "Text"
                        /\ toSts[j].body.type = "FunctionCallResponse"
                        /\ toSts[j].body.name = fs[i].name
                        /\ toSts[j].body.content[1] = "error"
                  /\ \A k \in Dispatched(fs) : k > i => ResponsesFor(k) # {}
        /\ Len(backendCalls) <= Cardinality(Dispatched(fs))

\* a request whose first item has unparseable arguments and whose second
\* item was answered after it
C9_Witness ==
    /\ last.op = "FunctionCallRequest"
    /\ Len(last.arg) = 2
    /\ last.arg[1].client_side
    /\ ~from_str(last.arg[1].arguments).ok
    /\ 2 \in Dispatched(last.arg)
    /\ Len(toSts) = 2
    /\ toSts[1].body.id = 1
    /\ toSts[2].body.id = 2
    /\ Len(backendCalls) = 1

\* C10 as stated: a client-side item whose name is none of the six
\* operations gets no response.
C10_UnknownNameNoResponse ==
    last.op = "FunctionCallRequest" =>
        \A i \in 1 .. Len(last.arg) :
            (last.arg[i].client_side /\ last.arg[i].name \notin FunctionNames) =>
                ResponsesFor(i) = {}

\* C10 amended: a client-side item whose arguments parse as JSON and whose
\* name is none of the six operations gets no response, and a request made
\* of such items only invokes no backend operation.
C10_UnknownNameParsedNoResponse ==
    last.op = "FunctionCallRequest" =>
        LET fs == last.arg
            unknown == {i \in 1 .. Len(fs) :
                           /\ fs[i].client_side
                           /\ from_str(fs[i].arguments).ok
                           /\ fs[i].name \notin FunctionNames}
        IN
        /\ \A i \in unknown : ResponsesFor(i) = {}
        /\ unknown = 1 .. Len(fs) => backendCalls = <<>>

\* a request whose first item names an unknown operation with parseable
\* arguments and whose second item was answered
C10_Witness ==
    /\ last.op = "FunctionCallRequest"
    /\ Len(last.arg) = 2
    /\ last.arg[1].client_side
    /\ from_str(last.arg[1].arguments).ok
    /\ last.arg[1].name \notin FunctionNames
    /\ Len(toSts) = 1
    /\ toSts[1].body.id = 2

C12_ServerSideSkipped ==
    last.op = "FunctionCallRequest" =>
        LET fs == last.arg
            skipped == {i \in 1 .. Len(fs) : ~fs[i].client_side}
        IN
        /\ \A i \in skipped :
              /\ ResponsesFor(i) = {}
              /\ \A k \in 1 .. Len(fs) :
                    (k > i /\ fs[k].client_side
                       /\ (fs[k].name \in FunctionNames \/ ~from_str(fs[k].arguments).ok))
                    => Cardinality(ResponsesFor(k)) = 1
        /\ Len(backendCalls) <= Cardinality(Dispatched(fs))
        /\ skipped = 1 .. Len(fs) => (toSts = <<>> /\ backendCalls = <<>>)

\* a request whose first item is server-side with parseable arguments and a
\* known name, and whose second item was answered and reached the backend
C12_Witness ==
    /\ last.op = "FunctionCallRequest"
    /\ Len(last.arg) = 2
    /\ ~last.arg[1].client_side
    /\ from_str(last.arg[1].arguments).ok
    /\ 2 \in Dispatched(last.arg)
    /\ Len(toSts) = 1
    /\ toSts[1].body.id = 2
    /\ Len(backendCalls) = 1

FailureStrings ==
    {"Failed - item and/or order error.", "Failed - order not present.",
     "Failed - no order present."}

OrderOperations == {"add_item", "delete_item", "add_modifier", "order"}

\* the identifiers an order operation needs cannot be resolved
Unresolved(f, order) ==
    LET key == as_str(from_str(f.arguments).value, "itemPathKey") IN
    \/ f.name = "add_item" /\ key \notin MenuKeys
    \/ f.name = "add_modifier" /\ key \notin ModifierKeys
    \/ f.name \in OrderOperations /\ order = None

\* C13: a dispatched add_item whose key is not in the catalog, add_modifier
\* whose key is not in the modifier tree, or order operation without an
\* order id is answered with one response whose content is a failure string,
\* no backend operation of that name is invoked for its arguments, and the
\* task keeps running with its connection; without an order id none of the
\* four order operations invokes the backend, whatever its arguments.
C13_ResolutionErrors ==
    /\ last.op = "FunctionCallRequest" =>
          LET fs == last.arg IN
          \A i \in Dispatched(fs) :
              Unresolved(fs[i], qu_order_id) =>
                  /\ Cardinality(ResponsesFor(i)) = 1
                  /\ \A j \in ResponsesFor(i) :
                        /\ Len(toSts[j].body.content) = 1
                        /\ toSts[j].body.content[1] \in FailureStrings
                  /\ \A b \in 1 .. Len(backendCalls) :
                        ~(/\ backendCalls[b].op = fs[i].name
                          /\ as_str(from_str(fs[i].arguments).value, "itemPathKey")
                                 \in {backendCalls[b].arg[n] :
                                         n \in 1 .. Len(backendCalls[b].arg)})
                  /\ taskState = "running"
                  /\ IsSome(sts_sender)
    /\ \A h \in HeadItems, answer \in {"Ok", "Err"} :
          (h.name \in OrderOperations /\ from_str(h.arguments).ok) =>
              LET f == [id |-> 1, name |-> h.name, arguments |-> h.arguments,
                        client_side |-> h.client_side]
                  r == known_function(f, from_str(h.arguments).value, None, Some(1), answer)
              IN /\ r.calls = <<>>
                 /\ Len(r.sent) = 1
                 /\ r.sent[1].body.content[1] \in FailureStrings

\* add_item was asked for a key that only the modifier tree holds, while an
\* order was in progress
C13_Witness ==
    /\ last.op = "FunctionCallRequest"
    /\ last.arg[1].name = "add_item"
    /\ 1 \in Dispatched(last.arg)
    /\ IsSome(qu_order_id)
    /\ Unresolved(last.arg[1], qu_order_id)
    /\ Len(toSts) >= 1
    /\ toSts[1].body.content = <<"Failed - item and/or order error.">>

\* C14: an audio or message connection attempt whose session id is in the
\* blacklist is answered with not-found and leaves both registry maps, the
\* channels and the admitted connections as they were, at every attempt.
C14_BlacklistedRejected ==
    [][(last'.op \in {"handle_audio", "handle_message"} /\ last'.arg[1] \in blacklist) =>
          /\ last'.arg[2] = "NOT_FOUND"
          /\ UNCHANGED <<audio_to_message_handles, message_to_audio_handles>>
          /\ UNCHANGED <<channels, audioConns, messageConns>>]_vars

\* a message connection was rejected for a session id that had registered
\* before it was blacklisted, and the registration is still there
C14_Witness ==
    /\ last.op = "handle_message"
    /\ last.arg[2] = "NOT_FOUND"
    /\ last.arg[1] \in blacklist
    /\ contains_key(audio_to_message_handles, last.arg[1])
    /\ contains_key(message_to_audio_handles, last.arg[1])

\* C15: a message connection attempt makes at most 5 registry lookups, the
\* i-th of them 5 * (i - 1) seconds after the attempt began; it is rejected
\* with bad-request only after 5 lookups and is then not upgraded; and after
\* 5 lookups of a session id that is still not registered the attempt is
\* waiting for its rejection or rejected, never upgraded.
C15_RetryCap ==
    \A m \in 1 .. Len(messageConns) :
        LET attempt == messageConns[m] IN
        /\ Len(attempt.lookups) <= 5
        /\ \A i \in 1 .. Len(attempt.lookups) : attempt.lookups[i] = 5 * (i - 1)
        /\ attempt.pc = "bad_request" =>
               (Len(attempt.lookups) = 5 /\ attempt.rx = None)
        /\ (Len(attempt.lookups) = 5
              /\ ~contains_key(audio_to_message_handles, attempt.uid))
           => attempt.pc \in {"sleep", "bad_request"}

\* an attempt for a session id that never registered was rejected
C15_Witness ==
    \E m \in 1 .. Len(messageConns) :
        /\ messageConns[m].pc = "bad_request"
        /\ messageConns[m].lookups = <<0, 5, 10, 15, 20>>
        /\ ~contains_key(audio_to_message_handles, messageConns[m].uid)

\* C16: a message connection attempt is rejected with bad-request only if
\* its session id is not registered at the moment of the rejection: a
\* registration made at any moment of the retry window, the last wait of 5
\* seconds included, gets the attempt upgraded.
C16_RegisteredInWindowUpgrades ==
    [][\A m \in 1 .. Len(messageConns) :
          (messageConns[m].pc # "bad_request" /\ messageConns'[m].pc = "bad_request")
          => ~contains_key(audio_to_message_handles, messageConns[m].uid)]_vars

\* the audio connection that registered a session id last
LatestAudio(uid) ==
    CHOOSE c \in 1 .. Len(audioConns) :
        /\ audioConns[c].uid = uid
        /\ \A d \in 1 .. Len(audioConns) : audioConns[d].uid = uid => d <= c

\* C17: an admitted audio connection leaves both registry maps pointing at
\* the channels it has just created, which are empty and are those of no
\* earlier connection; and the events of every text of a message connection
\* are appended to the message-to-audio channel of the audio connection
\* that registered the session id last, every other channel staying as it
\* was.
C17_ReregistrationReplaces ==
    [][/\ (last'.op = "handle_audio" /\ last'.arg[2] = "UPGRADE") =>
            LET uid == last'.arg[1]
                new == audioConns'[Len(audioConns')]
            IN /\ Len(audioConns') = Len(audioConns) + 1
               /\ new.uid = uid
               /\ audio_to_message_handles'[uid] = Some(new.a2m)
               /\ message_to_audio_handles'[uid] = Some(new.m2a)
               /\ new.a2m # new.m2a
               /\ \A d \in 1 .. Len(audioConns) :
                     {audioConns[d].a2m, audioConns[d].m2a} \cap {new.a2m, new.m2a} = {}
               /\ channels'[new.a2m].queue = <<>>
               /\ channels'[new.m2a].queue = <<>>
       /\ last'.op = "message_text" =>
            LET uid == messageConns[last'.arg[1]].uid
                target == audioConns[LatestAudio(uid)].m2a
            IN \A ch \in 1 .. Len(channels) :
                  channels'[ch].queue =
                      IF ch = target THEN channels[ch].queue \o classify(last'.arg[2])
                                     ELSE channels[ch].queue]_vars

\* a message connection set up under the first registration of its session
\* published an event after a second audio connection had registered the
\* same session id, and the event is in the second connection's channel
C17_Witness ==
    /\ last.op = "message_text"
    /\ Len(audioConns) = 2
    /\ audioConns[1].uid = audioConns[2].uid
    /\ messageConns[last.arg[1]].uid = audioConns[1].uid
    /\ messageConns[last.arg[1]].rx = Some(audioConns[1].a2m)
    /\ channels[audioConns[2].m2a].queue # <<>>
    /\ channels[audioConns[1].m2a].queue = <<>>

\* the device audio connection has closed or its task has ended
AudioTerminated(c) ==
    \/ audioConns[c].nexeo = "closed"
    \/ audioConns[c].pc \in {"returned", "panicked"}

\* C18: once the device audio connection of a session has terminated, the
\* registry holds no entry made by that connection's registration.
C18_TerminatedAudioUnregistered ==
    \A c \in 1 .. Len(audioConns) :
        AudioTerminated(c) =>
            /\ audio_to_message_handles[audioConns[c].uid] # Some(audioConns[c].a2m)
            /\ message_to_audio_handles[audioConns[c].uid] # Some(audioConns[c].m2a)

\* audio connection c exists, its device connection has closed and its task
\* is in its loop with an open upstream connection
AudioOrphaned(c) ==
    IF c <= Len(audioConns)
    THEN /\ audioConns[c].nexeo = "closed"
         /\ audioConns[c].pc = "running"
         /\ audioConns[c].sts = "open"
    ELSE FALSE

AudioReleased(c) ==
    IF c <= Len(audioConns)
    THEN audioConns[c].pc # "running" \/ audioConns[c].sts = "none"
    ELSE FALSE

\* C19: an audio task whose device connection has closed while it holds an
\* open upstream connection eventually releases it, by leaving its loop or
\* otherwise.
C19_ClosedAudioReleasesUpstream ==
    \A c \in 1 .. MaxAdmitted : [](AudioOrphaned(c) => <>AudioReleased(c))

\* message connection m was upgraded and its device connection has closed
MessageOrphaned(m) ==
    IF m <= Len(messageConns)
    THEN /\ messageConns[m].nexeo = "closed"
         /\ messageConns[m].pc \in {"upgraded", "locking", "running"}
    ELSE FALSE

MessageReturned(m) ==
    IF m <= Len(messageConns) THEN messageConns[m].pc = "returned" ELSE FALSE

\* C20: a message task whose device connection has closed eventually
\* returns, releasing the receiver it holds.
C20_ClosedMessageTaskReturns ==
    \A m \in 1 .. MaxAdmitted : [](MessageOrphaned(m) => <>MessageReturned(m))


\* C23: while the session is Active, agent_speaking is true and barge-in is
\* disabled, a device audio frame makes the task hand exactly one KeepAlive
\* text message to the upstream sender and none of the frame's bytes.
C23_KeepAliveWhileSpeaking ==
    [][(last'.op = "NexeoBinary" /\ Active /\ agent_speaking /\ ~ENABLE_BARGE_IN) =>
          /\ toSts' = <<StsMsg(sts_sender, "Text", KeepAlive)>>
          /\ \A i \in 1 .. Len(toSts') : toSts'[i].kind # "Binary"]_vars

\* a frame of two full samples arrived while the agent was speaking and a
\* KeepAlive went upstream in its place
C23_Witness ==
    /\ last.op = "NexeoBinary"
    /\ Len(last.arg[1]) >= 4
    /\ agent_speaking
    /\ Len(toSts) = 1
    /\ toSts[1].kind = "Text"
    /\ toSts[1].body = KeepAlive

\* the checksum a device-bound frame carries in its first four bytes, read
\* big-endian into a 32-bit word
from_be_bytes(bytes) ==
    [i \in Word |-> (bytes[4 - (i \div 8)] \div (2 ^ (i % 8))) % 2]

decode(frame) ==
    [checksum |-> from_be_bytes(SubSeq(frame, 1, 4)), payload |-> Payload(frame)]

\* the payload the handler that ran last framed for the device: the frame of
\* an upstream Binary message, or the buffer a Played flushed
Framed(speaking, buffer, op, arg) ==
    IF op = "StsBinary" /\ ~speaking THEN <<arg>>
    ELSE IF op = "Played" /\ buffer # <<>> THEN <<buffer>>
    ELSE <<>>

\* C26: every binary message sent to the device is a 16-byte header followed
\* by the payload: its length is 16 plus the payload length, bytes 4 to 15
\* are zero and bytes 16 onward are the payload, for a frame sent directly
\* and for the frame of a Played flush; no other handler sends to the device.
C26_HeaderThenPayload ==
    [][LET framed == Framed(agent_speaking, buffered_audio, last'.op, last'.arg) IN
         /\ Len(toNexeo') = Len(framed)
         /\ \A k \in 1 .. Len(toNexeo') :
               /\ Len(toNexeo'[k]) = HeaderLen + Len(framed[k])
               /\ \A i \in 4 .. 15 : toNexeo'[k][i + 1] = 0
               /\ \A i \in 1 .. Len(framed[k]) :
                     toNexeo'[k][HeaderLen + i] = framed[k][i]]_vars

\* an empty agent frame was sent directly, as a bare 16-byte header
C26_Witness ==
    /\ last.op = "StsBinary"
    /\ last.arg = <<>>
    /\ Len(toNexeo) = 1
    /\ Len(toNexeo[1]) = HeaderLen

\* C27: decoding a frame sent to the device (bytes 0-3 as a big-endian
\* checksum, bytes 16 onward as payload) yields the payload that was framed
\* and the CRC-32 of that payload.
C27_FramingRoundTrip ==
    [][LET framed == Framed(agent_speaking, buffered_audio, last'.op, last'.arg) IN
         \A k \in 1 .. Len(toNexeo') :
            /\ k <= Len(framed)
            /\ decode(toNexeo'[k]).payload = framed[k]
            /\ decode(toNexeo'[k]).checksum = crc32_bitwise(framed[k])]_vars

\* a Played flushed a two-byte buffer whose frame decodes to it
C27_Witness ==
    /\ last.op = "Played"
    /\ Len(toNexeo) = 1
    /\ Len(decode(toNexeo[1]).payload) = 2
    /\ decode(toNexeo[1]).checksum = crc32_bitwise(decode(toNexeo[1]).payload)
    /\ decode(toNexeo[1]).checksum # AllOnes

\* C28: with barge-in disabled, an upstream UserStartedSpeaking message
\* publishes no cross-channel event and changes no state of the session; no
\* handler of the audio task ever publishes to the audio-to-message queue.
C28_NoBargeInEvent ==
    [][/\ ~ENABLE_BARGE_IN => toMessage' = <<>>
       /\ (last'.op = "StsUserStartedSpeaking" /\ ~ENABLE_BARGE_IN) =>
             /\ UNCHANGED locals
             /\ UNCHANGED <<taskState, sts_ended, connOpened, ordersCreated>>
             /\ toNexeo' = <<>>
             /\ toSts' = <<>>
             /\ written' = <<>>]_vars

\* a UserStartedSpeaking arrived while the agent's audio was playing
C28_Witness ==
    /\ last.op = "StsUserStartedSpeaking"
    /\ agent_speaking
    /\ IsSome(sts_sender)
    /\ toMessage = <<>>

\* C30: after an Arrive whose upstream connection could not be opened the
\* audio task is still running, without an upstream connection.
C30_ConnectFailureKeepsTask ==
    (last.op = "Arrive" /\ last.arg = "connect_failed") =>
        (taskState = "running" /\ sts_sender = None)


\* the runs of the history in which a device frame met an upstream sender
\* and an agent that was not speaking
Forwarded(run) == run.op = "NexeoBinary" /\ IsSome(run.sender) /\ ~run.speaking

IsBinary(message) == message.kind = "Binary"

\* C24: the binary messages handed to the upstream sender are, one for one
\* and in the same order, the device frames that arrived while the session
\* was Active and agent_speaking was false; each carries the channel-extracted
\* bytes of its frame and goes to the connection that was open when the frame
\* arrived.
C24_FramesForwardedInOrder ==
    LET frames == SelectSeq(runs, Forwarded)
        audio == SelectSeq(sent.sts, IsBinary)
    IN /\ Len(audio) = Len(frames)
       /\ \A i \in 1 .. Len(audio) :
             /\ audio[i].body = capture_frame(frames[i].arg[1])
             /\ audio[i].conn = Unwrap(frames[i].sender)

\* two different frames were forwarded, the longer one first
C24_Witness ==
    LET audio == SelectSeq(sent.sts, IsBinary) IN
    /\ Len(audio) = 2
    /\ Len(audio[1].body) = 4
    /\ Len(audio[2].body) = 2
    /\ taskState = "running"

\* C25: the channel extraction of a frame of n bytes has 2*floor(n/4) bytes,
\* and for each i < floor(n/4) its bytes 2i and 2i+1 are bytes 4i and 4i+1 of
\* the frame; nothing else of the frame is in the output.
C25_ChannelExtraction ==
    last.op = "capture_frame" =>
        LET message == last.arg[1]
            output == last.arg[2]
            groups == Len(message) \div 4
        IN /\ Len(output) = 2 * groups
           /\ \A i \in 0 .. groups - 1 :
                 /\ output[2 * i + 1] = message[4 * i + 1]
                 /\ output[2 * i + 2] = message[4 * i + 2]

\* a frame of two samples and a trailing byte, whose discarded bytes differ
\* from the bytes kept, was extracted
C25_Witness ==
    /\ last.op = "capture_frame"
    /\ Len(last.arg[1]) = 9
    /\ Len(last.arg[2]) = 4
    /\ last.arg[1][5] # last.arg[1][7]
    /\ last.arg[1][6] # last.arg[1][8]
    /\ last.arg[1][1] # last.arg[1][5]


\* C21: no task waits on a cross-channel send while it holds a registry
\* lock, and no registration waits for a registry lock that such a task
\* holds.
C21_NoWaitUnderRegistryLock ==
    /\ \A m \in 1 .. Len(messageConns) : messageConns[m].pc # "sending"
    /\ \A c \in 1 .. Len(audioConns) : audioConns[c].pc # "registering"

IsPrefix(s, t) == Len(s) <= Len(t) /\ s = SubSeq(t, 1, Len(s))

\* C22: on every channel the events received are a prefix of the events
\* sent, and the events sent and not yet received are the queue, in order:
\* nothing is reordered, duplicated or dropped, also when the queue is full.
C22_ReceivedIsPrefixOfSent ==
    \A ch \in 1 .. Len(channels) :
        /\ IsPrefix(channels[ch].received, channels[ch].sent)
        /\ channels[ch].sent = channels[ch].received \o channels[ch].queue

\* a sender has waited on the full queue and every event it sent, more than
\* the queue holds at once, has been received
C22_Witness ==
    \E ch \in 1 .. Len(channels) :
        /\ Len(channels[ch].received) > ChannelBuffer + 1
        /\ channels[ch].received = channels[ch].sent
        /\ channels[ch].received[ChannelBuffer + 1] = "Arrive"
        /\ channels[ch].received[ChannelBuffer + 2] = "Depart"

\* the pattern test the claim attaches to each event
Matches(text, event) ==
    CASE event = "Arrive" -> "NEXEO/request/lane1/arrive" \in text
      [] event = "Depart" -> "NEXEO/request/lane1/depart" \in text
      [] event = "Played" -> "NEXEO/response/lane1-audio" \in text /\ "played" \in text
      [] event = "Escalation" -> "NEXEO/alert/crew-escalation/lane1" \in text

Expected(text) ==
    SelectSeq(<<"Arrive", "Depart", "Played", "Escalation">>, LAMBDA e : Matches(text, e))

\* C29: a text received on the message connection appends to the session's
\* message-to-audio queue exactly the events whose pattern occurs in it, in
\* the order Arrive, Depart, Played, Escalation, and touches no other queue;
\* a text that matches no pattern appends nothing.
C29_TextClassification ==
    [][last'.op = "message_text" =>
          LET m == last'.arg[1]
              text == last'.arg[2]
              ch == Unwrap(message_to_audio_handles[messageConns[m].uid])
          IN /\ Len(channels') = Len(channels)
             /\ channels'[ch].queue = channels[ch].queue \o Expected(text)
             /\ \A other \in 1 .. Len(channels) :
                   other # ch => channels'[other] = channels[other]]_vars

\* a text holding every pattern published all four events, in order
C29_Witness ==
    /\ last.op = "message_text"
    /\ last.arg[2] = Patterns
    /\ \E ch \in 1 .. Len(channels) :
          channels[ch].queue = <<"Arrive", "Depart", "Played", "Escalation">>


\* C31: after a send to the upstream agent has failed, and after a read from
\* upstream has failed, the audio task is still in its event loop.
C31_FailuresKeepLoop ==
    (last.op = "StsReadError" \/ (last.op = "NexeoBinary" /\ ~last.arg[2])) =>
        taskState = "running"

\* C34: a non-empty playback buffer implies agent_speaking.
C34_BufferedImpliesSpeaking ==
    buffered_audio # <<>> => agent_speaking

\* two bytes of agent audio are buffered behind a frame that is playing
C34_Witness ==
    /\ Len(buffered_audio) >= 2
    /\ agent_speaking
    /\ taskState = "running"

\* C35: while the task waits for its next event without an upstream
\* connection, agent_speaking is false and the playback buffer is empty.
C35_IdleHasNoPlayback ==
    (taskState = "running" /\ sts_sender = None /\ sts_receiver = None) =>
        (~agent_speaking /\ buffered_audio = <<>>)

\* a Depart ended a period in which the agent had spoken
C35_Witness ==
    /\ last.op = "Depart"
    /\ IsSome(persistCalls[1].order)
    /\ sts_sender = None
    /\ ~agent_speaking
    /\ buffered_audio = <<>>

\* C36: while the task waits for its next event, the order id, the upstream
\* sender and the upstream receiver are all present or all absent.
C36_OrderWithConnection ==
    taskState = "running" =>
        /\ IsSome(qu_order_id) <=> IsSome(sts_sender)
        /\ IsSome(sts_sender) <=> IsSome(sts_receiver)

\* an Escalation cleared the three together, after a second period had set
\* them together
C36_Witness ==
    /\ last.op = "Escalation"
    /\ persistCalls[1].order = Some(2)
    /\ qu_order_id = None
    /\ sts_sender = None
    /\ sts_receiver = None

\* C37: every order file a handler writes names the agent session announced
\* on the upstream connection the task holds when the handler starts.
C37_SessionOfSamePeriod ==
    [][\A i \in 1 .. Len(written') :
          /\ IsSome(sts_sender)
          /\ written'[i].session = Unwrap(sts_sender)]_vars


\* the messages handed to the upstream sender of connection k, in order
Upstream(k) == SelectSeq(sent.sts, LAMBDA msg : msg.conn = k)

IsHandshake(msg) == msg.kind = "Text" /\ msg.body.type = "Settings"

\* C32: on every upstream connection the settings handshake is the first
\* message sent upstream, ahead of any device audio, KeepAlive or
\* FunctionCallResponse, and it is sent exactly once on that connection
C32_HandshakeFirstAndOnce ==
    \A k \in 1 .. connOpened :
        /\ Upstream(k) # <<>>
        /\ IsHandshake(Upstream(k)[1])
        /\ \A i \in 2 .. Len(Upstream(k)) : ~IsHandshake(Upstream(k)[i])

\* a connection that carried device audio, a KeepAlive and a
\* FunctionCallResponse after its handshake
C32_Witness ==
    /\ connOpened >= 1
    /\ Len(Upstream(1)) >= 4
    /\ \E i \in 2 .. Len(Upstream(1)) : Upstream(1)[i].kind = "Binary"
    /\ \E i \in 2 .. Len(Upstream(1)) : Upstream(1)[i].body = KeepAlive
    /\ \E i \in 2 .. Len(Upstream(1)) :
           /\ Upstream(1)[i].kind = "Text"
           /\ Upstream(1)[i].body.type = "FunctionCallResponse"

\* C33: the handshake of an Arrive carries the settings value current when
\* that Arrive is processed, and a settings update sends nothing upstream
\* and changes nothing of the audio task: it shows in later handshakes only
C33_HandshakeCarriesCurrentSettings ==
    [][/\ last'.op = "Arrive" /\ last'.arg = "ok" =>
              toSts' = <<StsMsg(sts_sender', "Text",
                                [type |-> "Settings", value |-> settings])>>
       /\ last'.op = "handle_settings" =>
              /\ toSts' = toSts
              /\ sts_sender' = sts_sender
              /\ connOpened' = connOpened]_vars

\* the settings were updated and the handshake of the second Arrive
\* carries the update
C33_Witness ==
    /\ last.op = "Arrive"
    /\ connOpened = 2
    /\ toSts # <<>>
    /\ toSts[1].body = [type |-> "Settings", value |-> "updated"]


\* the run that ended the previous Active period (0: none did)
PeriodStart ==
    IF \E j \in 1 .. Len(runs) : runs[j].op \in {"Depart", "Escalation"}
    THEN CHOOSE j \in 1 .. Len(runs) :
             /\ runs[j].op \in {"Depart", "Escalation"}
             /\ \A k \in j + 1 .. Len(runs) : runs[k].op \notin {"Depart", "Escalation"}
    ELSE 0

RECURSIVE Flatten(_)
Flatten(seqs) == IF seqs = <<>> THEN <<>> ELSE Head(seqs) \o Flatten(Tail(seqs))

\* the payload bytes sent to the device since PeriodStart, in send order
DevicePayload ==
    LET frames == SelectSeq(sent.nexeo, LAMBDA f : f.run > PeriodStart)
    IN  Flatten([i \in 1 .. Len(frames) |-> decode(frames[i].frame).payload])

\* the bytes of the upstream binary frames since PeriodStart, in arrival order
AgentAudio ==
    LET js == SelectSeq([j \in 1 .. Len(runs) |-> j],
                        LAMBDA j : j > PeriodStart /\ runs[j].op = "StsBinary")
    IN  Flatten([i \in 1 .. Len(js) |-> runs[js[i]].arg])

\* C38: within one Active period (from an Arrive to the next Depart or
\* Escalation) the payload bytes sent to the device, in send order, are at
\* all times a prefix of the bytes of the upstream binary frames in arrival
\* order, and the bytes not yet sent are exactly the buffer: nothing is
\* reordered, duplicated or lost, and only Depart or Escalation discard.
C38_DeviceAudioIsPrefix ==
    /\ IsPrefix(DevicePayload, AgentAudio)
    /\ AgentAudio = DevicePayload \o buffered_audio

\* a frame sent directly, two frames buffered and a Played that flushed them
C38_Witness ==
    /\ last.op = "Played"
    /\ Len(sent.nexeo) = 2
    /\ DevicePayload = <<7, 200, 7>>
    /\ AgentAudio = <<7, 200, 7>>


\* the device audio connection of session uid is open and its task has not ended
AudioOpen(uid) ==
    \E c \in 1 .. Len(audioConns) :
        /\ audioConns[c].uid = uid
        /\ audioConns[c].nexeo = "open"
        /\ audioConns[c].pc \in {"upgraded", "locking", "running"}

\* message connection m is upgraded and open, the audio connection of its
\* session is open, and its task has not reached the loop that reads texts
MessageWaiting(m) ==
    IF m <= Len(messageConns)
    THEN /\ messageConns[m].pc = "locking"
         /\ messageConns[m].nexeo = "open"
         /\ AudioOpen(messageConns[m].uid)
    ELSE FALSE

\* C39: as long as the audio connection of the session stays open, the task
\* of every upgraded message connection comes to read the texts of its
\* device, so that their events reach the audio task; also for a connection
\* made after an earlier one of the session closed, and for two open ones.
C39_MessageTaskServesTexts ==
    \A m \in 1 .. MaxAdmitted : [](MessageWaiting(m) => <>~MessageWaiting(m))

\* C40: a socket task of an audio connection that holds or waits for a
\* receiver holds or waits for the receiver of the queue that its own
\* registration created.
C40_OwnReceiver ==
    \A c \in 1 .. Len(audioConns) :
        IsSome(audioConns[c].rx) => audioConns[c].rx = Some(audioConns[c].m2a)

====
